---- MODULE Spec2Model ----
(***************************************************************************)
(* The argument collector of jib (src/src/collector.ts): Flag, the builder *)
(* operations of Collector and Collector.resolve.                          *)
(*                                                                         *)
(* Text is modelled character by character: a string is a sequence of      *)
(* one-character strings, so the regular expressions of                    *)
(* src/src/lib/constants.ts and camelize() are computed, not assumed.      *)
(* JavaScript values are tagged tuples (Undefined, Bool, Str, Arr), so     *)
(* that values of different JavaScript types can be compared.              *)
(*                                                                         *)
(* A definition that needs an intermediate result more than once takes it  *)
(* as a parameter of a helper (matchFlag -> matchTail -> matchValue ...):  *)
(* the helpers of one function are mapped to that function together.       *)
(***************************************************************************)
EXTENDS Integers, Sequences, FiniteSets, TLC

(***************************************************************************)
(* Characters                                                              *)
(***************************************************************************)
LowerChars == <<"a","b","c","d","e","f","g","h","i","j","k","l","m",
                "n","o","p","q","r","s","t","u","v","w","x","y","z">>

UpperChars == <<"A","B","C","D","E","F","G","H","I","J","K","L","M",
                "N","O","P","Q","R","S","T","U","V","W","X","Y","Z">>

DigitChars == {"0","1","2","3","4","5","6","7","8","9"}

Range(s) == {s[i] : i \in DOMAIN s}

LowerSet == Range(LowerChars)

UpperSet == Range(UpperChars)

\* \w of a JavaScript regular expression
WordChars == LowerSet \cup UpperSet \cup DigitChars \cup {"_"}

IsWord(c) == c \in WordChars

NotWord(c) == ~IsWord(c)

\* \s, as far as the modelled alphabet goes
IsSpace(c) == c = " "

IndexOf(s, c) == CHOOSE i \in DOMAIN s : s[i] = c

toUpperCase(c) == IF c \in LowerSet THEN UpperChars[IndexOf(LowerChars, c)] ELSE c

toLowerCase(c) == IF c \in UpperSet THEN LowerChars[IndexOf(UpperChars, c)] ELSE c

\* [a-z_-] under the i flag (OPTARG, FLAGS)
FlagCharsI == LowerSet \cup UpperSet \cup {"_", "-"}

IsFlagCharI(c) == c \in FlagCharsI

\* [a-z_-] without the i flag (FLAG)
FlagChars == LowerSet \cup {"_", "-"}

\* the length of the longest prefix of s whose characters are all in chars
\* (member = TRUE) or all outside it (member = FALSE)
RunLen(s, chars, member) ==
    CHOOSE n \in 0..Len(s) :
        /\ \A i \in 1..n : (s[i] \in chars) = member
        /\ (n = Len(s) \/ (s[n + 1] \in chars) # member)

Drop(s, n) == SubSeq(s, n + 1, Len(s))

Take(s, n) == SubSeq(s, 1, n)

Reverse(s) == [i \in 1..Len(s) |-> s[Len(s) + 1 - i]]

Min(a, b) == IF a < b THEN a ELSE b

(***************************************************************************)
(* camelize (lib/string)                                                   *)
(***************************************************************************)
\* the replacement callback of camelize: match is one \w character at
\* 0-based index, or a run of white space (given as " ")
camelizeMatch(match, index) ==
    IF match = "0" \/ IsSpace(match) THEN <<>>
    ELSE IF index = 0 THEN <<toLowerCase(match)>>
    ELSE <<toUpperCase(match)>>

\* whether /(?:^\w|[A-Z]|\b\w|\s+)/g matches at 1-based position i of s
camelizeHit(s, i) ==
    \/ IsSpace(s[i])
    \/ /\ IsWord(s[i])
       /\ (i = 1 \/ s[i] \in UpperSet \/ NotWord(s[i - 1]))

\* the second replace of camelize, from position i on
RECURSIVE camelizeJoin(_, _)
camelizeJoin(s, i) ==
    IF i > Len(s) THEN <<>>
    ELSE (IF camelizeHit(s, i) THEN camelizeMatch(s[i], i - 1) ELSE <<s[i]>>)
         \o camelizeJoin(s, i + 1)

camelize(str) ==
    SelectSeq(camelizeJoin(Drop(str, RunLen(str, WordChars, FALSE)), 1), IsWord)

(***************************************************************************)
(* JavaScript values                                                       *)
(***************************************************************************)
Undefined == <<"undefined">>

Null == <<"null">>

Bool(b) == <<"boolean", b>>

\* a string value; chars is its sequence of characters
Str(chars) == <<"string", chars>>

\* an array value
Arr(items) == <<"array", items>>

\* the value a function handler of the model returns for (val, prev): the
\* free term over its two arguments, so that what it was called with, and
\* in which order, can be read off the result
Applied(val, prev) == <<"applied", val, prev>>

IsStr(v) == v[1] = "string"

IsArr(v) == v[1] = "array"

\* JavaScript truthiness
Truthy(v) ==
    /\ v # Undefined
    /\ v # Null
    /\ v # Bool(FALSE)
    /\ v # Str(<<>>)

\* a || b
OrElse(a, b) == IF Truthy(a) THEN a ELSE b

\* obj[key] of a JavaScript object modelled as a function
Get(obj, key) == IF key \in DOMAIN obj THEN obj[key] ELSE Undefined

\* {...obj, [key]: val}
Put(obj, key, val) == [k \in DOMAIN obj \cup {key} |-> IF k = key THEN val ELSE obj[k]]

\* arr[i] of a JavaScript array, i counted from 0
At(arr, i) == IF i >= 0 /\ i < Len(arr) THEN arr[i + 1] ELSE Undefined

\* arr[i] = val, i counted from 0: the array grows, with holes, as needed
SetAt(arr, i, val) ==
    [k \in 1..(IF i + 1 > Len(arr) THEN i + 1 ELSE Len(arr)) |->
        IF k = i + 1 THEN val ELSE IF k <= Len(arr) THEN arr[k] ELSE Undefined]

(***************************************************************************)
(* CONSTANTS.REGEX (lib/constants.ts)                                      *)
(***************************************************************************)
\* the length of the match of --?[a-z_-]+ (i flag) at the start of s,
\* 0 when there is none
FlagRun(s) ==
    IF Len(s) >= 2 /\ s[1] = "-" /\ IsFlagCharI(s[2])
    THEN 1 + RunLen(Tail(s), FlagCharsI, TRUE)
    ELSE 0

\* isOpt(arg): REGEX.OPTARG.test(arg) for a string arg (isOpt(undefined),
\* which tests '', is false)
isOpt(arg) == FlagRun(arg) > 0

\* the (.+) of OPTARG after "=": an opening quote is left out when
\* something follows it
unquote(after) ==
    IF Len(after) >= 2 /\ after[1] \in {"\"", "'"} THEN Tail(after) ELSE after

\* <<flag, flagVal>> for the text after the flag
flagValOf(flag, rest) ==
    <<flag, IF Len(rest) >= 2 /\ rest[1] = "=" THEN Str(unquote(Tail(rest)))
            ELSE Undefined>>

\* _flagVal(arg), arg.match(REGEX.OPTARG): <<flag, flagVal>> of an argument
\* isOpt accepts; flagVal is Undefined unless "=" and at least one
\* character follow the flag
flagValAt(arg, n) == flagValOf(Take(arg, n), Drop(arg, n))

flagVal(arg) == flagValAt(arg, FlagRun(arg))

\* syntax.match(REGEX.FLAGS): every match of --?([a-z_-]+), left to right
RECURSIVE matchFlags(_)
matchFlagsAt(s, n) ==
    IF n > 0 THEN <<Take(s, n)>> \o matchFlags(Drop(s, n))
    ELSE matchFlags(Tail(s))

matchFlags(s) == IF s = <<>> THEN <<>> ELSE matchFlagsAt(s, FlagRun(s))

NoMatch == [ok |-> FALSE, bracket |-> "", vName |-> <<>>]

\* syntax.match(REGEX.FLAG): [ok, bracket, vName]; the match is anchored at
\* the end of the syntax and is case sensitive. The helpers read the
\* reversed syntax r: the closing bracket, the \w+ of the value name, the
\* opening bracket, an optional [\s=], then a "-" followed by at least one
\* of [a-z_-].
matchFound(run, h, bracket, vName) ==
    IF \E i \in 2..run : h[i] = "-"
    THEN [ok |-> TRUE, bracket |-> bracket, vName |-> vName]
    ELSE NoMatch

matchHead(h, bracket, vName) == matchFound(RunLen(h, FlagChars, TRUE), h, bracket, vName)

matchSep(h, bracket, vName) ==
    matchHead(IF h # <<>> /\ (IsSpace(h[1]) \/ h[1] = "=") THEN Tail(h) ELSE h,
              bracket, vName)

matchValue(r, nameLen) ==
    IF nameLen > 0 /\ Len(r) >= nameLen + 2 /\ r[nameLen + 2] \in {"<", "["}
    THEN matchSep(Drop(r, nameLen + 2), r[nameLen + 2],
                  Reverse(SubSeq(r, 2, nameLen + 1)))
    ELSE NoMatch

matchTail(r) ==
    IF r # <<>> /\ r[1] \in {">", "]"}
    THEN matchValue(r, RunLen(Tail(r), WordChars, TRUE))
    ELSE matchHead(r, "", <<>>)

matchFlag(s) == matchTail(Reverse(s))

NEG == <<"-", "-", "n", "o", "-">>

\* REGEX.NEG.test(s)
testNeg(s) == Len(s) >= Len(NEG) /\ Take(s, Len(NEG)) = NEG

(***************************************************************************)
(* Flag                                                                    *)
(***************************************************************************)
\* whether new Flag(syntax) returns (it throws on a syntax FLAG rejects)
FlagOk(syntax) == matchFlag(syntax).ok

\* the fields of a Flag if a boolean kept the caller's default
FlagOfCallerDefault(list, vName, vRequired, long, bool, neg, defaultValue, handler) ==
    [name         |-> camelize(IF neg THEN Drop(long, Len(NEG)) ELSE long),
     alias        |-> list,
     meta         |-> [vName |-> vName, vRequired |-> vRequired,
                       bool |-> bool, neg |-> neg],
     defaultValue |-> defaultValue,
     handler      |-> handler]

\* the fields of a Flag, from the constructor's locals
FlagOf(list, vName, vRequired, long, bool, neg, defaultValue, handler) ==
    [name         |-> camelize(IF neg THEN Drop(long, Len(NEG)) ELSE long),
     alias        |-> list,
     meta         |-> [vName |-> vName, vRequired |-> vRequired,
                       bool |-> bool, neg |-> neg],
     defaultValue |-> IF bool THEN Bool(neg) ELSE defaultValue,
     handler      |-> handler]

FlagFrom(f, list, defaultValue, handler) ==
    FlagOf(list, f.vName, f.bracket = "<", list[Len(list)], f.vName = <<>>,
           f.vName = <<>> /\ testNeg(list[Len(list)]), defaultValue, handler)

\* new Flag(syntax, defaultValue, handler)
Flag(syntax, defaultValue, handler) ==
    FlagFrom(matchFlag(syntax), matchFlags(syntax), defaultValue, handler)

(***************************************************************************)
(* The collector tree                                                      *)
(*                                                                         *)
(* One root and a chain of two subcommands, as built by                    *)
(*   root = new Collector(null); bar = root.subcommand('bar');             *)
(*   baz = bar.subcommand('baz')                                           *)
(***************************************************************************)
Root == 1

Collectors == {1, 2, 3}

BAR == <<"b", "a", "r">>

BAZ == <<"b", "a", "z">>

\* _commands of each collector: subcommand name -> collector
commands(c) ==
    CASE c = 1 -> (BAR :> 2)
      [] c = 2 -> (BAZ :> 3)
      [] OTHER -> <<>>

\* Collector.parent(); 0 stands for no parent
parent(c) == CASE c = 2 -> 1 [] c = 3 -> 2 [] OTHER -> 0

isRoot(c) == parent(c) = 0

RECURSIVE root(_)
root(c) == IF parent(c) # 0 THEN root(parent(c)) ELSE c

(***************************************************************************)
(* State                                                                   *)
(***************************************************************************)
VARIABLES
    scope,      \* which part of the input space this run draws from
    _options,   \* per collector: the declared options, in order
    _flags,     \* per collector: alias -> Flag
    _args,      \* per collector: the declared arguments, in order
    _metadata,  \* per collector: the 'unknowns' entry of _metadata
    _result,    \* per collector: [options, args], the accumulator
    pc,         \* "idle", "reduce" (inside resolve's loop), "done", "rejected"
    argv,       \* what resolve was called with
    list,       \* resolve's working list
    iargv,      \* resolve's copy of the list after command slicing
    collector,  \* the collector _sliceInstance returned, 0 outside resolve
    error,      \* the Error the promise was rejected with, or NoError
    calls,      \* how many builder calls were made
    call,       \* the last call of a method that only returns: <<name, inputs>>
    returned,   \* what that call returned, or the error it threw
    cli,        \* the CLI and its process: options, command directory, log,
                \* help shown, exit code; <<>> when no CLI was constructed
    program,    \* the Program: commands registered, the promise of exec,
                \* the command instance and its run; <<>> without a CLI
    emitted,    \* the emit calls of the resolve under way or last made, in
                \* order: [on, event, args]
    resolves    \* how many resolve calls were made on the tree

vars == <<scope, _options, _flags, _args, _metadata, _result, pc, argv, list, iargv,
          collector, error, calls, call, returned, cli, program, emitted, resolves>>

NoError == [kind |-> "none", subject |-> <<>>]

\* new Error(`missing required argument: ${name}`)
MissingArgument(name) == [kind |-> "missing required argument", subject |-> name]

\* new Error(`Unknown option: ${flag}`)
UnknownOption(flag) == [kind |-> "Unknown option", subject |-> flag]

\* new Error(`Option '${name}' requires a value: ...`)
MissingOptionValue(name) == [kind |-> "requires a value", subject |-> name]

\* undefined.match(...) and the like
TypeError == [kind |-> "TypeError", subject |-> <<>>]

\* new Error(`Invalid option syntax ${syntax}`)
InvalidOptionSyntax(syntax) == [kind |-> "Invalid option syntax", subject |-> syntax]

\* a call that returned v
Returned(v) == [threw |-> FALSE, value |-> v]

\* a call that threw e
Threw(e) == [threw |-> TRUE, value |-> e]

\* CollectorOpt.HELP
HELP == <<"h", "e", "l", "p">>

\* CollectorOpt.VERSION
VERSION == <<"v", "e", "r", "s", "i", "o", "n">>

(***************************************************************************)
(* Collector.option                                                        *)
(***************************************************************************)
\* _options.forEach((o, i) => o._flag.name === name && _options.splice(i, 1)):
\* forEach goes on at index i + 1 of the spliced array
RECURSIVE dedupe(_, _, _)
\* an option() that removes nothing
dedupeNone(options, name, i) == options

dedupe(options, name, i) ==
    IF i > Len(options) THEN options
    ELSE dedupe(IF options[i]._flag.name = name
                THEN Take(options, i - 1) \o Drop(options, i)
                ELSE options,
                name, i + 1)

\* flag.alias.forEach(a => _flags.set(a, flag))
setAliases(flags, flag) ==
    [a \in DOMAIN flags \cup Range(flag.alias) |->
        IF a \in Range(flag.alias) THEN flag ELSE flags[a]]

\* the loop body of option() once the Flag is made: st is [options, flags]
\* of the collector; owner records the collector the declaration was made
\* on, which the code does not store
optionPush(st, opt, flag) ==
    [options |-> Append(dedupe(st.options, flag.name, 1),
                        [flag |-> opt.flag, default |-> opt.default,
                         fn |-> opt.fn, inherits |-> opt.inherits,
                         owner |-> opt.owner, _flag |-> flag]),
     flags   |-> setAliases(st.flags, flag)]

\* the loop body of option() for one declaration
optionOne(st, opt) == optionPush(st, opt, Flag(opt.flag, opt.default, opt.fn))

\* option(...opts) on a collector whose state is st
RECURSIVE option(_, _)
option(st, opts) ==
    IF opts = <<>> THEN st ELSE option(optionOne(st, Head(opts)), Tail(opts))

\* a filter that lets no option through
inheritableNever(o) == FALSE

\* a filter that lets every option through
inheritableAlways(o) == TRUE

\* o => o.inherits !== false
inheritable(o) == o.inherits # Bool(FALSE)

\* _inherit(options) on a collector whose state is st: the aliases are
\* cleared, then the inheritable options and the collector's own are
\* declared again, in this order
inherit(st, options) ==
    option([options |-> <<>>, flags |-> <<>>],
           SelectSeq(options, inheritable) \o st.options)

(***************************************************************************)
(* Collector._sliceInstance                                                *)
(***************************************************************************)
\* args.reduce(...) from 1-based index i on: prev is the accumulator, start
\* (-1 for undefined) and len the closure's variables, O and F the _options
\* and _flags of all collectors, which _inherit changes on the way
RECURSIVE sliceReduce(_, _, _, _, _, _, _)
sliceNext(args, i, next, start, len, O, F, st) ==
    sliceReduce(args, i + 1, next, IF start = -1 THEN i - 1 ELSE start, len + 1,
                [O EXCEPT ![next] = st.options], [F EXCEPT ![next] = st.flags])

sliceFound(args, i, prev, next, start, len, O, F) ==
    sliceNext(args, i, next, start, len, O, F,
              inherit([options |-> O[next], flags |-> F[next]], O[prev]))

sliceReduce(args, i, prev, start, len, O, F) ==
    IF i > Len(args)
    THEN [inst |-> prev, start |-> start, len |-> len, options |-> O, flags |-> F]
    ELSE IF args[i] \in DOMAIN commands(prev)
         THEN sliceFound(args, i, prev, commands(prev)[args[i]], start, len, O, F)
         ELSE sliceReduce(args, i + 1, prev, start, len, O, F)

\* args.splice(start, len), start counted from 0
splice(args, start, len) ==
    Take(args, start) \o Drop(args, Min(start + len, Len(args)))

sliceResult(args, r) ==
    [inst    |-> r.inst,
     args    |-> IF r.len # 0 THEN splice(args, r.start, r.len) ELSE args,
     options |-> r.options,
     flags   |-> r.flags]

\* _sliceInstance(args) on the root: the collector found, the list as it
\* leaves, and the _options and _flags of all collectors afterwards
sliceInstance(args, O, F) == sliceResult(args, sliceReduce(args, 1, Root, -1, 0, O, F))

(***************************************************************************)
(* Collector._emitOpt                                                      *)
(***************************************************************************)
\* CollectorEvent.OPTION
OPTION == <<"o", "p", "t", "i", "o", "n">>

RECURSIVE _emitOpt(_, _, _)
\* an _emitOpt that calls no listener
_emitOptNone(c, name, val) == <<>>

\* an _emitOpt that leaves the ancestors out
_emitOptHere(c, name, val) ==
    <<[on |-> c, event |-> OPTION, args |-> <<name, val>>],
      [on |-> c, event |-> OPTION \o <<":">> \o name, args |-> <<val>>]>>

\* _emitOpt(name, val) on collector c: the emit calls made, in order. _all
\* runs the callback on c, then on its parent, up to the root, and the
\* callback emits 'option' with (name, val), then `option:${name}` with val
_emitOpt(c, name, val) ==
    <<[on |-> c, event |-> OPTION, args |-> <<name, val>>],
      [on |-> c, event |-> OPTION \o <<":">> \o name, args |-> <<val>>]>>
    \o (IF parent(c) # 0 THEN _emitOpt(parent(c), name, val) ELSE <<>>)

(***************************************************************************)
(* Collector._optVal                                                       *)
(***************************************************************************)
\* String(undefined)
UNDEFINED_TEXT == <<"u", "n", "d", "e", "f", "i", "n", "e", "d">>

\* a handler call that is not handed the accumulated value
applyHandlerFresh(handler, val, prev) ==
    [threw |-> FALSE,
     val   |-> CASE handler = "function" -> Applied(val, Undefined)
                 [] handler = "concat" -> Arr(<<val>>)
                 [] OTHER -> val]

\* opt.handler applied to val; prev is this._result.options[name].
\* [threw, val]
applyHandler(handler, val, prev) ==
    CASE handler = "regexp" ->
            \* val.match(/./)
            IF ~IsStr(val) THEN [threw |-> TRUE, val |-> Undefined]
            ELSE [threw |-> FALSE,
                  val |-> IF val[2] = <<>> THEN Null
                          ELSE Arr(<<Str(<<val[2][1]>>)>>)]
      [] handler = "concat" ->
            \* (val, prev) => (prev || []).concat(val)
            IF ~Truthy(prev) \/ IsArr(prev)
            THEN [threw |-> FALSE,
                  val |-> Arr((IF Truthy(prev) THEN prev[2] ELSE <<>>)
                              \o (IF IsArr(val) THEN val[2] ELSE <<val>>))]
            ELSE IF IsStr(prev)
            THEN \* String.prototype.concat
                 [threw |-> FALSE,
                  val |-> Str(prev[2] \o (IF IsStr(val) THEN val[2]
                                          ELSE UNDEFINED_TEXT))]
            ELSE \* no concat method on a boolean
                 [threw |-> TRUE, val |-> Undefined]
      [] handler = "function" ->
            [threw |-> FALSE, val |-> Applied(val, prev)]
      [] OTHER -> [threw |-> FALSE, val |-> val]

\* _optVal throws e
optThrow(e, rest) ==
    [threw |-> TRUE, error |-> e, name |-> <<>>, val |-> Undefined, rest |-> rest]

\* an element of an argv as a value: the string of a token, or undefined
\* where the array holds undefined instead of a token
element(token) == IF token = Undefined THEN Undefined ELSE Str(token)

\* _optVal returns {[name]: val}, leaving rest
optReturn(name, val, rest) ==
    [threw |-> FALSE, error |-> NoError, name |-> name, val |-> val, rest |-> rest]

\* after the handler ran
optHandled(name, h, rest) ==
    IF h.threw THEN optThrow(TypeError, rest) ELSE optReturn(name, h.val, rest)

\* "apply option handler" for a non-boolean option
optHandler(opt, options, val, rest) ==
    optHandled(opt.name, applyHandler(opt.handler, val, Get(options, opt.name)), rest)

\* the check after val was taken from rest or from the default
optTaken(opt, options, val, rest) ==
    IF ~Truthy(val) /\ opt.meta.vRequired
    THEN optThrow(MissingOptionValue(opt.name), rest)
    ELSE optHandler(opt, options, val, rest)

\* the branch of _optVal for a declared option; val is flagVal
optKnown(opt, options, val, rest) ==
    IF opt.meta.bool THEN optReturn(opt.name, Bool(~opt.meta.neg), rest)
    ELSE IF Truthy(val) THEN optHandler(opt, options, val, rest)
    ELSE IF rest # <<>> /\ isOpt(rest[1])
         THEN optTaken(opt, options, opt.defaultValue, rest)
    ELSE IF rest = <<>> THEN optTaken(opt, options, Undefined, rest)
    ELSE optTaken(opt, options, element(Head(rest)), Tail(rest))

\* the branch for a flag that is not declared, without the test of 'unknowns'
optUnknownThrows(unknowns, flag, val, rest) == optThrow(UnknownOption(flag), rest)

\* the branch of _optVal for a flag that is not declared
optUnknown(unknowns, flag, val, rest) ==
    IF ~Truthy(unknowns) THEN optThrow(UnknownOption(flag), rest)
    ELSE optReturn(camelize(flag), OrElse(val, Bool(TRUE)), rest)

optValOf(flags, unknowns, options, fv, rest) ==
    IF fv[1] \in DOMAIN flags
    THEN optKnown(flags[fv[1]], options, fv[2], rest)
    ELSE optUnknown(unknowns, fv[1], fv[2], rest)

\* _optVal(current, rest) on a collector with the given _flags, 'unknowns'
\* and _result.options: [threw, error, name, val, rest]
optVal(flags, unknowns, options, current, rest) ==
    optValOf(flags, unknowns, options, flagVal(current), rest)

(***************************************************************************)
(* Collector._receive, _defaults, _verify                                  *)
(***************************************************************************)
\* args[slot] = args[slot] || []; args[slot].push(current)
pushMulti(args, slot, old, current) ==
    SetAt(args, slot, Arr(Append(old[2], element(current))))

\* a positional branch that knows no variadic argument
receiveAtPush(declared, args, current, idx) == Append(args, element(current))

\* the positional branch of _receive: _result.args afterwards.
\* defn = this._args[Math.min(last, max)] is undefined at index -1
receiveAt(declared, args, current, idx) ==
    IF idx >= 0 /\ declared[idx + 1].multi
    THEN pushMulti(args, Len(declared) - 1,
                   OrElse(At(args, Len(declared) - 1), Arr(<<>>)), current)
    ELSE Append(args, element(current))

receiveArg(declared, args, current) ==
    receiveAt(declared, args, current, Min(Len(args), Len(declared) - 1))

\* _defaults(): _result.options afterwards
RECURSIVE defaults(_, _)
\* a _defaults that does not look at the value present
defaultOfAlways(options, flag) == Put(options, flag.name, flag.defaultValue)

defaultOf(options, flag) ==
    IF Get(options, flag.name) = Undefined
    THEN Put(options, flag.name, flag.defaultValue)
    ELSE options

defaults(options, declared) ==
    IF declared = <<>> THEN options
    ELSE defaults(defaultOf(options, Head(declared)._flag), Tail(declared))

\* the 0-based indexes of the declared arguments _verify finds missing
missing(declared, args) ==
    {i \in 0..(Len(declared) - 1) :
        ~declared[i + 1].optional /\ ~Truthy(At(args, i))}

\* the forEach of _verify throws at the first missing argument
firstMissing(declared, miss) ==
    IF miss = {} THEN NoError
    ELSE MissingArgument(declared[1 + CHOOSE i \in miss : \A j \in miss : i <= j].name)

\* _verify() without the test of options.help
verifyAlways(declared, res) == firstMissing(declared, missing(declared, res.args))

\* _verify(): the error it throws, NoError when it returns
verify(declared, res) ==
    IF ~Truthy(Get(res.options, HELP))
    THEN firstMissing(declared, missing(declared, res.args))
    ELSE NoError

(***************************************************************************)
(* resolve as a function                                                   *)
(***************************************************************************)
\* the loop of resolve on a collector with the given _flags, 'unknowns' and
\* _args, from the accumulator res on: [error, result], error being what
\* _optVal threw
RECURSIVE reduce(_, _, _, _, _)
reduceOpt(flags, unknowns, declared, res, r) ==
    IF r.threw THEN [error |-> r.error, result |-> res]
    ELSE reduce(flags, unknowns, declared,
                [res EXCEPT !.options = Put(@, r.name, r.val)], r.rest)

reduce(flags, unknowns, declared, res, rest) ==
    IF rest = <<>> THEN [error |-> NoError, result |-> res]
    ELSE IF isOpt(Head(rest))
    THEN reduceOpt(flags, unknowns, declared, res,
                   optVal(flags, unknowns, res.options, Head(rest), Tail(rest)))
    ELSE reduce(flags, unknowns, declared,
                [res EXCEPT !.args = receiveArg(declared, @, Head(rest))], Tail(rest))

\* collector.result() after the loop: _defaults()._verify()
resultOf(options, declared, res) ==
    [error  |-> verify(declared, res), result |-> res]

\* what resolve settles with when its loop ended as r
resolved(options, declared, r) ==
    IF r.error # NoError THEN r
    ELSE resultOf(options, declared,
                  [options |-> defaults(r.result.options, options),
                   args    |-> r.result.args])

(***************************************************************************)
(* The declarations, arguments and tokens the model draws from             *)
(***************************************************************************)
\* an ICollectorOption as the caller passes it
Decl(flag, default, fn, inherits) ==
    [flag |-> flag, default |-> default, fn |-> fn, inherits |-> inherits]

\* help()'s option: '-h, --help'
HelpDecl == Decl(<<"-", "h", ",", " ", "-", "-", "h", "e", "l", "p">>, Undefined, "none", Undefined)

\* version()'s option: {inherits: false, flag: '-v, --version'}
VersionDecl == Decl(<<"-", "v", ",", " ", "-", "-", "v", "e", "r", "s", "i", "o", "n">>, Undefined, "none", Bool(FALSE))

\* '-l, --loud'
Loud == Decl(<<"-", "l", ",", " ", "-", "-", "l", "o", "u", "d">>, Undefined, "none", Undefined)

\* '-l, --no-loud' with default 'a'
NoLoud == Decl(<<"-", "l", ",", " ", "-", "-", "n", "o", "-", "l", "o", "u", "d">>, Str(<<"a">>), "none", Undefined)

\* '--loud <level>' with a function as fn
LoudLevel == Decl(<<"-", "-", "l", "o", "u", "d", " ", "<", "l", "e", "v", "e", "l", ">">>, Undefined, "function", Undefined)

\* '--loud <level>' with default 'a'
LoudLevelA == Decl(<<"-", "-", "l", "o", "u", "d", " ", "<", "l", "e", "v", "e", "l", ">">>, Str(<<"a">>), "none", Undefined)

\* '--loud [level]' with fn: (val, prev) => (prev || []).concat(val)
LoudList == Decl(<<"-", "-", "l", "o", "u", "d", " ", "[", "l", "e", "v", "e", "l", "]">>, Undefined, "concat", Undefined)

\* '--loud [level]' with default 'a'
LoudOptionalA == Decl(<<"-", "-", "l", "o", "u", "d", " ", "[", "l", "e", "v", "e", "l", "]">>, Str(<<"a">>), "none", Undefined)

\* '-a'
ShortA == Decl(<<"-", "a">>, Undefined, "none", Undefined)

\* '-b'
ShortB == Decl(<<"-", "b">>, Undefined, "none", Undefined)

\* an ICommandArgument
Arg(name, optional, multi) == [name |-> name, optional |-> optional, multi |-> multi]

Foo == Arg(<<"f", "o", "o">>, FALSE, FALSE)

Opt == Arg(<<"o", "p", "t">>, TRUE, FALSE)

Files == Arg(<<"f", "i", "l", "e", "s">>, FALSE, TRUE)

T_a == <<"a">>

T_b == <<"b">>

T_help == <<"-", "-", "h", "e", "l", "p">>

T_l == <<"-", "l">>

T_loud == <<"-", "-", "l", "o", "u", "d">>

T_loud_b == <<"-", "-", "l", "o", "u", "d", "=", "b">>

T_no_loud == <<"-", "-", "n", "o", "-", "l", "o", "u", "d">>

T_v == <<"-", "v">>

T_sa == <<"-", "a">>

T_sb == <<"-", "b">>

T_sab == <<"-", "a", "b">>

\* The runs are partitioned into scopes, to keep each one small: a scope
\* names the builder calls its runs may make (which declaration on which
\* collector) and the tokens their argv is made of.
Scopes ==
    [arguments |->
        [options |-> {}, help |-> {1}, version |-> {}, unknowns |-> {},
         arguments |-> {<<1, Foo>>, <<1, Opt>>, <<1, Files>>},
         tokens |-> {T_a, T_b, T_help}],
     positionals |->
        [options |-> {<<1, LoudLevel>>}, help |-> {}, version |-> {},
         unknowns |-> {},
         arguments |-> {<<1, Foo>>, <<1, Files>>},
         tokens |-> {T_a, T_b, T_loud}],
     booleans |->
        [options |-> {<<1, Loud>>, <<1, NoLoud>>}, help |-> {}, version |-> {},
         unknowns |-> {<<1, TRUE>>, <<1, FALSE>>},
         arguments |-> {},
         tokens |-> {T_a, T_l, T_loud_b, T_no_loud}],
     values |->
        [options |-> {<<1, LoudLevel>>, <<1, LoudLevelA>>, <<1, LoudList>>,
                      <<1, LoudOptionalA>>},
         help |-> {}, version |-> {},
         unknowns |-> {<<1, TRUE>>},
         arguments |-> {},
         tokens |-> {T_a, T_l, T_loud, T_loud_b}],
     tree |->
        [options |-> {<<1, Loud>>, <<2, LoudLevelA>>}, help |-> {},
         version |-> {1, 2},
         unknowns |-> {},
         arguments |-> {},
         tokens |-> {BAR, BAZ, T_l, T_v}],
     bundled |->
        [options |-> {<<1, ShortA>>, <<1, ShortB>>}, help |-> {},
         version |-> {},
         unknowns |-> {<<1, TRUE>>},
         arguments |-> {},
         tokens |-> {T_a, T_sa, T_sb, T_sab}]]

ScopeNames == DOMAIN Scopes

\* the longest argv resolve is called with
MaxArgv == 3

\* the number of builder calls made on the tree
MaxCalls == 2

RECURSIVE SeqsUpTo(_, _)
SeqsUpTo(S, n) ==
    IF n = 0 THEN {<<>>}
    ELSE LET shorter == SeqsUpTo(S, n - 1)
         IN  shorter \cup {Append(q, x) : q \in {r \in shorter : Len(r) = n - 1}, x \in S}

\* per scope, every argv of up to MaxArgv of its tokens
Argvs == [n \in ScopeNames |-> SeqsUpTo(Scopes[n].tokens, MaxArgv)]

(***************************************************************************)
(* Init and the builder operations                                         *)
(***************************************************************************)
\* a tree of collectors that were just constructed, and no call made
Fresh ==
    /\ _options = [c \in Collectors |-> <<>>]
    /\ _flags = [c \in Collectors |-> <<>>]
    /\ _args = [c \in Collectors |-> <<>>]
    /\ _metadata = [c \in Collectors |-> Undefined]
    /\ _result = [c \in Collectors |-> [options |-> <<>>, args |-> <<>>]]
    /\ pc = "idle"
    /\ argv = <<>>
    /\ list = <<>>
    /\ iargv = <<>>
    /\ collector = 0
    /\ error = NoError
    /\ calls = 0
    /\ call = <<>>
    /\ returned = Returned(Undefined)
    /\ emitted = <<>>
    /\ resolves = 0

Init ==
    /\ scope \in ScopeNames
    /\ Fresh
    /\ cli = <<>>
    /\ program = <<>>

\* the builder calls come before resolve
Building == pc = "idle" /\ calls < MaxCalls

\* the assignments of option() on collector c, st being what it computed
Registered(c, st) ==
    /\ _options' = [_options EXCEPT ![c] = st.options]
    /\ _flags' = [_flags EXCEPT ![c] = st.flags]
    /\ calls' = calls + 1
    /\ UNCHANGED <<cli, program, call, returned, emitted, resolves, scope, _args, _metadata, _result, pc, argv, list, iargv,
                   collector, error>>

\* c.option(opt)
Register(c, opt) ==
    Registered(c, option([options |-> _options[c], flags |-> _flags[c]],
                         <<[flag |-> opt.flag, default |-> opt.default,
                            fn |-> opt.fn, inherits |-> opt.inherits,
                            owner |-> c]>>))

Option(c, opt) == Building /\ Register(c, opt)

\* c.help()
Help(c) == Building /\ Register(c, HelpDecl)

\* c.version(v) with a non-empty v and no option of the caller's
Version(c) == Building /\ Register(c, VersionDecl)

\* c.unknowns(allow)
Unknowns(c, allow) ==
    /\ Building
    /\ _metadata' = [_metadata EXCEPT ![c] = Bool(allow)]
    /\ calls' = calls + 1
    /\ UNCHANGED <<cli, program, call, returned, emitted, resolves, scope, _options, _flags, _args, _result, pc, argv, list,
                   iargv, collector, error>>

\* c.argument(a)
Argument(c, a) ==
    /\ Building
    /\ _args' = [_args EXCEPT ![c] = Append(@, a)]
    /\ calls' = calls + 1
    /\ UNCHANGED <<cli, program, call, returned, emitted, resolves, scope, _options, _flags, _metadata, _result, pc, argv, list,
                   iargv, collector, error>>

(***************************************************************************)
(* Collector.resolve                                                       *)
(***************************************************************************)
\* the assignments of resolve up to its loop, s being what _sliceInstance
\* returned; the promise is a new one, and _result is what it was
Sliced(input, s) ==
    /\ argv' = input
    /\ collector' = s.inst
    /\ list' = s.args
    /\ iargv' = s.args
    /\ _options' = s.options
    /\ _flags' = s.flags
    /\ pc' = "reduce"
    /\ emitted' = <<>>
    /\ resolves' = resolves + 1
    /\ error' = NoError
    /\ UNCHANGED <<cli, program, call, returned, scope, _args, _metadata, _result, calls>>

\* resolve(input) up to the loop; a call on a subcommand goes to the root
Begin(input) ==
    /\ pc = "idle"
    /\ Sliced(input, sliceInstance(input, _options, _flags))

\* _receive of an option: r is what _optVal did
ReceiveOpt(c, r) ==
    /\ list' = r.rest
    /\ IF r.threw
       THEN /\ pc' = "rejected"
            /\ error' = r.error
            /\ UNCHANGED <<_result, emitted>>
       ELSE /\ emitted' = emitted \o _emitOpt(c, r.name, r.val)
            /\ _result' = [_result EXCEPT ![c].options = Put(@, r.name, r.val)]
            /\ UNCHANGED <<pc, error>>

\* _receive of a positional
ReceiveArg(c, current, rest) ==
    /\ list' = rest
    /\ _result' = [_result EXCEPT ![c].args = receiveArg(_args[c], @, current)]
    /\ UNCHANGED <<pc, error, emitted>>

\* one turn of the loop: collector._receive(list.shift(), list)
Receive ==
    /\ pc = "reduce"
    /\ list # <<>>
    /\ IF isOpt(Head(list))
       THEN ReceiveOpt(collector,
                       optVal(_flags[collector], _metadata[collector],
                              _result[collector].options, Head(list), Tail(list)))
       ELSE ReceiveArg(collector, Head(list), Tail(list))
    /\ UNCHANGED <<cli, program, call, returned, resolves, scope, _options, _flags, _args, _metadata, argv, iargv,
                   collector, calls>>

\* result() once _defaults ran: res is _result, e what _verify threw
Verified(c, res, e) ==
    /\ _result' = [_result EXCEPT ![c] = res]
    /\ error' = e
    /\ pc' = IF e = NoError THEN "done" ELSE "rejected"

Defaulted(c, res) == Verified(c, res, verify(_args[c], res))

\* after the loop: collector.result(), that is _defaults()._verify()
Finish ==
    /\ pc = "reduce"
    /\ list = <<>>
    /\ Defaulted(collector,
                 [options |-> defaults(_result[collector].options, _options[collector]),
                  args    |-> _result[collector].args])
    /\ UNCHANGED <<cli, program, call, returned, emitted, resolves, scope, _options, _flags, _args, _metadata, argv, list, iargv,
                   collector, calls>>

Next ==
    \/ \E x \in Scopes[scope].options : Option(x[1], x[2])
    \/ \E c \in Scopes[scope].help : Help(c)
    \/ \E c \in Scopes[scope].version : Version(c)
    \/ \E x \in Scopes[scope].unknowns : Unknowns(x[1], x[2])
    \/ \E x \in Scopes[scope].arguments : Argument(x[1], x[2])
    \/ \E input \in Argvs[scope] : Begin(input)
    \/ Receive
    \/ Finish

Spec == Init /\ [][Next]_vars

(***************************************************************************)
(* resolve called again on the same tree                                   *)
(***************************************************************************)
\* the most resolve calls made on one tree
MaxResolves == 2

\* a further resolve(input) on the tree, once the last one settled; the
\* collectors are the same objects, with the _result the last call left
Again(input) ==
    /\ pc \in {"done", "rejected"}
    /\ resolves < MaxResolves
    /\ Sliced(input, sliceInstance(input, _options, _flags))

InitAgain ==
    /\ scope = "positionals"
    /\ Fresh
    /\ cli = <<>>
    /\ program = <<>>

NextAgain ==
    \/ \E x \in Scopes[scope].options : Option(x[1], x[2])
    \/ \E x \in Scopes[scope].arguments : Argument(x[1], x[2])
    \/ \E input \in Argvs[scope] : Begin(input)
    \/ Receive
    \/ Finish
    \/ \E input \in Argvs[scope] : Again(input)

SpecAgain == InitAgain /\ [][NextAgain]_vars

(***************************************************************************)
(* Properties                                                              *)
(*                                                                         *)
(* Spec is one resolve on a tree that was just built. A step that leaves   *)
(* pc = "reduce" with an empty list is resolve's call of result(); a step  *)
(* that leaves it with a non-empty list is one _receive.                   *)
(***************************************************************************)
\* the declared argument at 1-based index i is non-optional and has no value
Lacks(declared, args, i) ==
    /\ ~declared[i].optional
    /\ (i > Len(args) \/ args[i] = Undefined)

\* the token is an option whose flag is an alias of the collector's option
\* of this name
Names(flags, token, name) ==
    /\ isOpt(token)
    /\ flagVal(token)[1] \in DOMAIN flags
    /\ flags[flagVal(token)[1]].name = name

\* the help option is set in the argv
HelpGiven == \E i \in DOMAIN iargv : Names(_flags[collector], iargv[i], HELP)

\* C1: when all tokens are consumed without an option error, resolve
\* rejects with 'missing required argument', naming the first non-optional
\* declared argument of the matched collector that has no value, unless the
\* help option was set in the argv; then it does not reject and
\* options.help is true.
C1_MissingArgument ==
    [][(pc = "reduce" /\ list = <<>>) =>
         IF HelpGiven
         THEN /\ pc' = "done"
              /\ Get(_result'[collector].options, HELP) = Bool(TRUE)
         ELSE \A i \in DOMAIN _args[collector] :
                 (/\ Lacks(_args[collector], _result[collector].args, i)
                  /\ \A j \in 1..(i - 1) :
                        ~Lacks(_args[collector], _result[collector].args, j))
                 => /\ pc' = "rejected"
                    /\ error' = MissingArgument(_args[collector][i].name)]_vars

\* resolve(['a']) on a root with arguments foo and files..., both required,
\* was rejected for files
C1_Witness ==
    /\ pc = "rejected"
    /\ _args[collector] = <<Foo, Files>>
    /\ _result[collector].args = <<Str(T_a)>>
    /\ error = MissingArgument(Files.name)

\* resolve(['--help']) on a root with help() and the required argument foo
\* was fulfilled
C1_WitnessHelp ==
    /\ pc = "done"
    /\ _args[collector] = <<Foo>>
    /\ iargv = <<T_help>>
    /\ _result[collector].args = <<>>

\* the next token of the loop is an option no alias of the matched
\* collector matches
AtUnknown ==
    /\ pc = "reduce"
    /\ list # <<>>
    /\ isOpt(Head(list))
    /\ flagVal(Head(list))[1] \notin DOMAIN _flags[collector]

\* what an unknown option does: with unknowns disallowed resolve rejects
\* with 'Unknown option' naming the flag, with unknowns allowed the loop
\* goes on with val under the camel-cased flag
UnknownGives(flag, val) ==
    IF ~Truthy(_metadata[collector])
    THEN /\ pc' = "rejected"
         /\ error' = UnknownOption(flag)
         /\ _result' = _result
    ELSE /\ pc' = "reduce"
         /\ Get(_result'[collector].options, camelize(flag)) = val

\* C2 as stated: an option-looking token whose flag matches no registered
\* alias of the matched collector rejects with 'Unknown option' naming the
\* flag when unknowns are disallowed, and sets options[camelCase(flag)] to
\* true when they are allowed.
C2_UnknownIsTrue ==
    [][AtUnknown => UnknownGives(flagVal(Head(list))[1], Bool(TRUE))]_vars

\* C2 amended: with unknowns allowed, options[camelCase(flag)] is the
\* token's inline =value when it carries a non-empty one, and true
\* otherwise.
C2_UnknownIsInlineOrTrue ==
    [][AtUnknown =>
         UnknownGives(flagVal(Head(list))[1],
                      IF flagVal(Head(list))[2] = Undefined THEN Bool(TRUE)
                      ELSE flagVal(Head(list))[2])]_vars

\* resolve(['--loud=b']) on a root that allows unknowns and declares no
\* --loud: options.loud is 'b'
C2_Witness ==
    /\ pc = "done"
    /\ _metadata[collector] = Bool(TRUE)
    /\ T_loud \notin DOMAIN _flags[collector]
    /\ iargv = <<T_loud_b>>
    /\ Get(_result[collector].options, <<"l", "o", "u", "d">>) = Str(T_b)

\* the next token of the loop is an alias of a required-value option and
\* carries no inline value
AtRequired ==
    /\ pc = "reduce"
    /\ list # <<>>
    /\ isOpt(Head(list))
    /\ flagVal(Head(list))[1] \in DOMAIN _flags[collector]
    /\ _flags[collector][flagVal(Head(list))[1]].meta.vRequired
    /\ flagVal(Head(list))[2] = Undefined

\* resolve rejects for the missing value of opt
ValueMissing(opt) ==
    /\ pc' = "rejected"
    /\ error' = MissingOptionValue(opt.name)

\* the token after the option is consumed as the value of opt: it is
\* handed to the handler, if any, and is no positional
ValueConsumed(opt) ==
    /\ pc' = "reduce"
    /\ list' = Tail(Tail(list))
    /\ _result'[collector].args = _result[collector].args
    /\ _result'[collector].options[opt.name] =
          IF opt.handler = "function"
          THEN Applied(Str(list[2]), Get(_result[collector].options, opt.name))
          ELSE Str(list[2])

\* C3 as stated: a required-value option without inline value rejects with
\* the missing-option-value error naming the option when the next token is
\* absent or looks like an option; otherwise the next token is consumed as
\* its value and is no positional.
C3_RequiredValue ==
    [][AtRequired =>
         IF Len(list) = 1 \/ isOpt(list[2])
         THEN ValueMissing(_flags[collector][flagVal(Head(list))[1]])
         ELSE ValueConsumed(_flags[collector][flagVal(Head(list))[1]])]_vars

\* the name the token sets in options, given the aliases of the collector
Sets(flags, token) ==
    IF flagVal(token)[1] \in DOMAIN flags THEN flags[flagVal(token)[1]].name
    ELSE camelize(flagVal(token)[1])

\* the positions of the argv whose option sets name
Setters(flags, name) ==
    {i \in DOMAIN iargv : isOpt(iargv[i]) /\ Sets(flags, iargv[i]) = name}

\* the positions of the argv that hold an alias of flag
Given(flags, flag) ==
    {i \in DOMAIN iargv :
        /\ isOpt(iargv[i])
        /\ flagVal(iargv[i])[1] \in DOMAIN flags
        /\ flags[flagVal(iargv[i])[1]] = flag}

\* the flag is declared with a --no- alias
Negated(flag) == \E i \in DOMAIN flag.alias : testNeg(flag.alias[i])

\* the value of a boolean option in a result whose argv sets the name by
\* the aliases `given` of the option, and by `setters` in all
BooleanValue(value, negated, given, setters) ==
    /\ setters = {} => value = Bool(negated)
    /\ (given # {} /\ setters = given) => value = Bool(~negated)

C4_WitnessNegated ==
    /\ pc = "done"
    /\ iargv = <<T_a>>
    /\ \E i \in DOMAIN _options[collector] :
          /\ _options[collector][i]._flag.meta.bool
          /\ _options[collector][i].default = Str(T_a)
          /\ Negated(_options[collector][i]._flag)

\* the proper ancestors of collector c
RECURSIVE Ancestors(_)
Ancestors(c) == IF parent(c) = 0 THEN {} ELSE {parent(c)} \cup Ancestors(parent(c))

\* the options collector c declared itself
Own(c) == {_options[c][i] : i \in {j \in DOMAIN _options[c] : _options[c][j].owner = c}}

\* a collector below a, on the path to c, declares an option of this name
Redeclared(a, c, name) ==
    \E d \in (Ancestors(c) \cup {c}) \ (Ancestors(a) \cup {a}) :
        \E o \in Own(d) : o._flag.name = name

\* the inheritable options the ancestors of c declared and no collector
\* nearer to c declared again
Inherited(c) ==
    {o \in UNION {Own(a) : a \in Ancestors(c)} :
        o.inherits # Bool(FALSE) /\ ~Redeclared(o.owner, c, o._flag.name)}

\* option o is recognised at collector c: each of its aliases is mapped to
\* its flag, and the result of a fulfilled resolve has the value the argv
\* gave it (true for a boolean), or its default when the argv left it out
Recognised(o, c) ==
    /\ \A i \in DOMAIN o._flag.alias :
          /\ o._flag.alias[i] \in DOMAIN _flags[c]
          /\ _flags[c][o._flag.alias[i]] = o._flag
    /\ (pc = "done" /\ Setters(_flags[c], o._flag.name) = {}) =>
          /\ o._flag.name \in DOMAIN _result[c].options
          /\ _result[c].options[o._flag.name] = o._flag.defaultValue
    /\ (pc = "done" /\ Given(_flags[c], o._flag) # {} /\ o._flag.meta.bool) =>
          Get(_result[c].options, o._flag.name) = Bool(~o._flag.meta.neg)

\* C5: after resolve descended to the matched collector, every option an
\* ancestor declared, not marked non-inheriting (and not declared again
\* nearer to the matched collector), is recognised there, through
\* intermediate collectors too: supplied after the command tokens it is set
\* in the result, left out it has its default there.
C5_Inherited ==
    pc # "idle" => \A o \in Inherited(collector) : Recognised(o, collector)

\* resolve(['bar', 'baz', '-l']) with '-l, --loud' declared on the root:
\* loud is true in the result of baz
C5_Witness ==
    /\ pc = "done"
    /\ collector = 3
    /\ iargv = <<T_l>>
    /\ \E o \in Inherited(3) : o.owner = 1 /\ T_l \in Range(o._flag.alias)
    /\ Get(_result[3].options, <<"l", "o", "u", "d">>) = Bool(TRUE)

\* the non-inheriting options of the ancestors of c that c does not
\* declare itself
Foreign(c) ==
    {o \in UNION {Own(a) : a \in Ancestors(c)} :
        /\ o.inherits = Bool(FALSE)
        /\ \A own \in Own(c) : own._flag.name # o._flag.name}

\* the next token of the loop is an alias of a foreign option
AtForeign ==
    /\ pc = "reduce"
    /\ list # <<>>
    /\ isOpt(Head(list))
    /\ \E o \in Foreign(collector) : flagVal(Head(list))[1] \in Range(o._flag.alias)

\* no foreign option has a key in the result of the matched collector
NoForeignKey ==
    pc # "idle" =>
        \A o \in Foreign(collector) :
            o._flag.name \notin DOMAIN _result[collector].options

\* C6: an option an ancestor marked non-inheriting (version()'s option) is
\* not recognised at a descendant that does not declare it itself: with
\* unknowns disallowed, its flag after the command tokens rejects as an
\* unknown option, and the option has no key in the descendant's result.
C6_NotInherited ==
    [][/\ NoForeignKey'
       /\ (AtForeign /\ ~Truthy(_metadata[collector])) =>
             /\ pc' = "rejected"
             /\ error' = UnknownOption(flagVal(Head(list))[1])]_vars

\* resolve(['bar', '-v']) with version() on the root was rejected for -v
C6_Witness ==
    /\ pc = "rejected"
    /\ collector = 2
    /\ iargv = <<T_v>>
    /\ \E o \in Foreign(2) : o.owner = 1 /\ o._flag.name = VERSION
    /\ error = UnknownOption(T_v)

\* C7 as stated: when the matched collector declares an option of the same
\* name as an inheritable option of its parent, its own declaration is the
\* one in effect for that name after the descent: every alias that sets the
\* name is mapped to the flag of its own declaration.
C7_OwnDeclaration ==
    pc # "idle" =>
        \A own \in Own(collector) :
            (/\ parent(collector) # 0
             /\ \E o \in Own(parent(collector)) :
                   o.inherits # Bool(FALSE) /\ o._flag.name = own._flag.name)
            => \A alias \in DOMAIN _flags[collector] :
                  _flags[collector][alias].name = own._flag.name
                  => _flags[collector][alias] = own._flag

\* following the children lookups over the tokens from c on
RECURSIVE Follow(_, _)
Follow(c, tokens) ==
    IF tokens # <<>> /\ Head(tokens) \in DOMAIN commands(c)
    THEN Follow(commands(c)[Head(tokens)], Tail(tokens))
    ELSE [inst |-> c, rest |-> tokens]

\* C10 as stated: the matched collector is the one the longest run of
\* subcommand names from index 0 of the argv leads to, and exactly the
\* tokens of this run are removed from the working list; a subcommand name
\* after the first token that is none changes nothing.
C10_LongestPrefix ==
    pc # "idle" =>
        /\ collector = Follow(Root, argv).inst
        /\ iargv = Follow(Root, argv).rest

\* the values the argv gives to the value-taking option `flag`, one per
\* occurrence, in argv order: the inline =value, else the next token
\* unless it looks like an option, else the default
RECURSIVE Values(_, _)
Values(tokens, flag) ==
    IF tokens = <<>> THEN <<>>
    ELSE IF ~(isOpt(Head(tokens)) /\ flagVal(Head(tokens))[1] \in Range(flag.alias))
    THEN Values(Tail(tokens), flag)
    ELSE IF flagVal(Head(tokens))[2] # Undefined
    THEN <<flagVal(Head(tokens))[2]>> \o Values(Tail(tokens), flag)
    ELSE IF Len(tokens) >= 2 /\ ~isOpt(tokens[2])
    THEN <<Str(tokens[2])>> \o Values(Tail(Tail(tokens)), flag)
    ELSE <<flag.defaultValue>> \o Values(Tail(tokens), flag)

\* handler(vk, ... handler(v1, undefined)) for the function of the model
RECURSIVE Folded(_, _)
Folded(values, acc) ==
    IF values = <<>> THEN acc
    ELSE Folded(Tail(values), Applied(Head(values), acc))

\* the flags of the matched collector with this handler
Handled(handler) ==
    {_flags[collector][a] : a \in {b \in DOMAIN _flags[collector] :
        ~_flags[collector][b].meta.bool /\ _flags[collector][b].handler = handler}}

\* C8: in a fulfilled resolve, a value-taking option with a function
\* handler that occurs k times with the values v1..vk has the value
\* handler(vk, ... handler(v1, undefined)): one call per occurrence, left
\* to right, each with the value accumulated so far. With
\* (val, prev) => (prev || []).concat(val) the value is the array of
\* v1..vk.
C8_HandlerFold ==
    pc = "done" =>
        /\ \A f \in Handled("function") :
              Get(_result[collector].options, f.name) =
                  Folded(Values(iargv, f), Undefined)
        /\ \A f \in Handled("concat") :
              (Values(iargv, f) # <<>> /\ Undefined \notin Range(Values(iargv, f)))
              => Get(_result[collector].options, f.name) = Arr(Values(iargv, f))

\* resolve(['--loud', 'a', '--loud=b']) with a function on '--loud <level>'
\* gave loud = fn('b', fn('a', undefined))
C8_Witness ==
    /\ pc = "done"
    /\ iargv = <<T_loud, T_a, T_loud_b>>
    /\ Handled("function") # {}
    /\ Get(_result[collector].options, <<"l", "o", "u", "d">>) =
          Applied(Str(T_b), Applied(Str(T_a), Undefined))

\* resolve(['--loud', 'a', '--loud=b']) with the concat reducer on
\* '--loud [level]' gave loud = ['a', 'b']
C8_WitnessConcat ==
    /\ pc = "done"
    /\ iargv = <<T_loud, T_a, T_loud_b>>
    /\ Handled("concat") # {}
    /\ Get(_result[collector].options, <<"l", "o", "u", "d">>) =
          Arr(<<Str(T_a), Str(T_b)>>)

\* the tokens that are neither options nor consumed as the value of one
RECURSIVE Positionals(_, _)
Positionals(tokens, flags) ==
    IF tokens = <<>> THEN <<>>
    ELSE IF ~isOpt(Head(tokens))
    THEN <<Head(tokens)>> \o Positionals(Tail(tokens), flags)
    ELSE IF /\ flagVal(Head(tokens))[1] \in DOMAIN flags
            /\ ~flags[flagVal(Head(tokens))[1]].meta.bool
            /\ flagVal(Head(tokens))[2] = Undefined
            /\ Len(tokens) >= 2
            /\ ~isOpt(tokens[2])
    THEN Positionals(Tail(Tail(tokens)), flags)
    ELSE Positionals(Tail(tokens), flags)

\* result.args for n declared arguments and the positional tokens P: one
\* token per slot, and with a variadic last slot an array of the n-th
\* token and all after it
Filled(n, variadic, P) ==
    IF variadic /\ Len(P) >= n
    THEN [i \in 1..n |->
            IF i < n THEN Str(P[i])
            ELSE Arr([j \in 1..(Len(P) - n + 1) |-> Str(P[n - 1 + j])])]
    ELSE [i \in 1..Len(P) |-> Str(P[i])]

\* only the last declared argument may be variadic
LastVariadic(declared) == \A i \in 1..(Len(declared) - 1) : ~declared[i].multi

\* resolve consumed all tokens without an option error
Consumed ==
    \/ pc = "done"
    \/ pc = "rejected" /\ error.kind = "missing required argument"

\* C9: for a collector whose declared arguments are variadic at most in the
\* last place, the tokens that are neither options nor option values fill
\* the slots in argv order; with a variadic last slot result.args has at
\* most n entries and the last one is the array of every positional token
\* from the n-th on.
C9_Positionals ==
    (Consumed /\ LastVariadic(_args[collector])) =>
        _result[collector].args =
            Filled(Len(_args[collector]),
                   _args[collector] # <<>> /\ _args[collector][Len(_args[collector])].multi,
                   Positionals(iargv, _flags[collector]))

\* resolve(['a', 'b', 'a']) with the arguments foo and files... gave
\* args = ['a', ['b', 'a']]
C9_Witness ==
    /\ pc = "done"
    /\ _args[collector] = <<Foo, Files>>
    /\ iargv = <<T_a, T_b, T_a>>
    /\ _result[collector].args = <<Str(T_a), Arr(<<Str(T_b), Str(T_a)>>)>>

\* the short aliases a bundle token stands for: -abc stands for -a, -b, -c
Bundle(token) == [i \in 1..(Len(token) - 1) |-> <<"-", token[i + 1]>>]

\* the next token of the loop is a bundle of at least two short aliases,
\* each a registered boolean alias of the matched collector
AtBundle ==
    /\ pc = "reduce"
    /\ list # <<>>
    /\ Len(Head(list)) >= 3
    /\ Head(list)[1] = "-"
    /\ \A i \in 1..(Len(Head(list)) - 1) :
          /\ Bundle(Head(list))[i] \in DOMAIN _flags[collector]
          /\ _flags[collector][Bundle(Head(list))[i]].meta.bool

\* C11 as stated: a token that bundles registered boolean short aliases
\* (-ab for -a and -b) is decomposed alias by alias: it sets each of the
\* options as its own token would, and is not rejected.
C11_Bundled ==
    [][AtBundle =>
         /\ pc' = "reduce"
         /\ \A i \in 1..(Len(Head(list)) - 1) :
               Get(_result'[collector].options,
                   _flags[collector][Bundle(Head(list))[i]].name)
               = Bool(~_flags[collector][Bundle(Head(list))[i]].meta.neg)]_vars

(***************************************************************************)
(* new Flag(syntax, defaultValue)                                          *)
(*                                                                         *)
(* SpecFlag is one construction of a Flag from a syntax made of up to      *)
(* MaxAliases aliases, in any order, and an optional value placeholder.    *)
(***************************************************************************)
\* the aliases a syntax is written with
FlagAliases ==
    {<<"-", "l">>,
     <<"-", "-", "l", "o", "u", "d">>,
     <<"-", "-", "n", "o", "-", "l", "o", "u", "d">>,
     <<"-", "-", "d", "r", "y", "-", "r", "u", "n">>}

\* the value placeholders a syntax ends with: none, ' <v>', ' [v]'
FlagValues == {<<>>, <<" ", "<", "v", ">">>, <<" ", "[", "v", "]">>}

\* the default values a Flag is constructed with
FlagDefaults == {Undefined, Str(<<"a">>)}

\* the number of aliases in a syntax
MaxAliases == 2

\* the aliases written one after the other, separated by ', '
RECURSIVE joinAliases(_)
joinAliases(aliases) ==
    IF aliases = <<>> THEN <<>>
    ELSE IF Len(aliases) = 1 THEN aliases[1]
    ELSE aliases[1] \o <<",", " ">> \o joinAliases(Tail(aliases))

\* every syntax of up to MaxAliases aliases and one placeholder
Syntaxes ==
    {joinAliases(a) \o v : a \in SeqsUpTo(FlagAliases, MaxAliases), v \in FlagValues}

InitFlag ==
    /\ scope = "flag"
    /\ Fresh
    /\ cli = <<>>
    /\ program = <<>>

\* new Flag(syntax, defaultValue): the Flag, or the error the constructor throws
NewFlag(syntax, defaultValue) ==
    /\ call = <<>>
    /\ call' = <<"Flag", syntax, defaultValue>>
    /\ returned' = IF FlagOk(syntax)
                   THEN Returned(Flag(syntax, defaultValue, "none"))
                   ELSE Threw(InvalidOptionSyntax(syntax))
    /\ UNCHANGED <<cli, program, emitted, resolves, scope, _options, _flags, _args, _metadata, _result, pc, argv, list,
                   iargv, collector, error, calls>>

NextFlag == \E syntax \in Syntaxes, defaultValue \in FlagDefaults : NewFlag(syntax, defaultValue)

SpecFlag == InitFlag /\ [][NextFlag]_vars

\* a Flag was constructed
Constructed == call # <<>> /\ call[1] = "Flag" /\ ~returned.threw

\* alias a is at least as long as every alias of the set
Longest(a, aliases) == \A i \in 1..Len(aliases) : Len(aliases[i]) <= Len(a)

\* the name the longest alias a gives: dashes removed, 'no-' removed when
\* the flag is negated, camelCase
NameOf(a, neg) == camelize(IF neg /\ testNeg(a) THEN Drop(a, Len(NEG)) ELSE a)

\* C12 as stated: whatever the order of the aliases, the name of a
\* constructed Flag is the camelCase of a longest alias of its alias set,
\* without the dashes, and without 'no-' when the flag is negated
C12_LongestAlias ==
    Constructed =>
        \E i \in 1..Len(returned.value.alias) :
            /\ Longest(returned.value.alias[i], returned.value.alias)
            /\ returned.value.name = NameOf(returned.value.alias[i], returned.value.meta.neg)

\* the same for a syntax whose longest alias is written last
C12_LongestLast ==
    (Constructed /\ Longest(returned.value.alias[Len(returned.value.alias)], returned.value.alias)) =>
        \E i \in 1..Len(returned.value.alias) :
            /\ Longest(returned.value.alias[i], returned.value.alias)
            /\ returned.value.name = NameOf(returned.value.alias[i], returned.value.meta.neg)

(***************************************************************************)
(* Collector.optRight and Collector.argShift                               *)
(*                                                                         *)
(* SpecArgs builds the options of the root, then makes one call of         *)
(* optRight or argShift on it.                                             *)
(***************************************************************************)
\* all.shift(): undefined on an empty array
shift(all) == IF all = <<>> THEN Undefined ELSE Head(all)

\* all after all.shift()
shifted(all) == IF all = <<>> THEN <<>> ELSE Tail(all)

RECURSIVE optRightLoop(_, _, _, _)

\* arg.unshift(next) in place of arg.push(next)
optRightArgUnshift(flags, all, arg, opt, next) ==
    optRightLoop(flags, all, <<next>> \o arg, opt)

\* else { arg.push(next) }
optRightArg(flags, all, arg, opt, next) ==
    optRightLoop(flags, all, Append(arg, next), opt)

\* if (!flagVal && o && !o.meta.bool) { opt.push(all.shift()) }, fv being
\* _flagVal(next)
optRightOpt(flags, all, arg, opt, fv) ==
    IF fv[2] = Undefined /\ fv[1] \in DOMAIN flags /\ ~flags[fv[1]].meta.bool
    THEN optRightLoop(flags, shifted(all), arg, Append(opt, shift(all)))
    ELSE optRightLoop(flags, all, arg, opt)

\* while (all.length) { const next = all.shift(); ... } return [...arg, ...opt]
optRightLoop(flags, all, arg, opt) ==
    IF all = <<>> THEN arg \o opt
    ELSE IF isOpt(Head(all))
         THEN optRightOpt(flags, Tail(all), arg, Append(opt, Head(all)), flagVal(Head(all)))
         ELSE optRightArg(flags, Tail(all), arg, opt, Head(all))

\* optRight(args) on a collector whose _flags are flags
optRight(flags, args) == optRightLoop(flags, args, <<>>, <<>>)

\* arg.findIndex(a => this.isOpt(a)): 0-based, -1 when there is none
findIndexOpt(arg) ==
    IF \E i \in 1..Len(arg) : isOpt(arg[i])
    THEN (CHOOSE i \in 1..Len(arg) :
              isOpt(arg[i]) /\ \A j \in 1..(i - 1) : ~isOpt(arg[j])) - 1
    ELSE -1

\* arg.slice(0, opt)
argShiftSliceAlways(arg, opt) ==
    IF opt < 0 THEN Take(arg, Len(arg) + opt) ELSE Take(arg, opt)

\* arg.slice(0, ~opt ? opt : undefined)
argShiftSlice(arg, opt) == IF opt # -1 THEN Take(arg, opt) ELSE arg

argShiftOf(arg) == argShiftSlice(arg, findIndexOpt(arg))

\* argShift(args) on a collector whose _flags are flags
argShift(flags, args) == argShiftOf(optRight(flags, args))

\* the declarations SpecArgs passes to option()
ArgsOptions == {ShortA, LoudLevel}

\* every argv of up to MaxArgv tokens SpecArgs calls the methods with
ArgsArgvs == SeqsUpTo({T_a, T_b, T_sa, T_loud, T_loud_b}, MaxArgv)

InitArgs ==
    /\ scope = "args"
    /\ Fresh
    /\ cli = <<>>
    /\ program = <<>>

\* root.option(opt), before the call
OptionArgs(opt) == call = <<>> /\ Option(Root, opt)

\* the variables a call of a method that only returns leaves alone
Untouched ==
    UNCHANGED <<cli, program, emitted, resolves, scope, _options, _flags, _args, _metadata, _result, pc, argv, list,
                iargv, collector, error, calls>>

\* root.optRight(input)
OptRight(input) ==
    /\ call = <<>>
    /\ call' = <<"optRight", input>>
    /\ returned' = Returned(optRight(_flags[Root], input))
    /\ Untouched

\* root.argShift(input)
ArgShift(input) ==
    /\ call = <<>>
    /\ call' = <<"argShift", input>>
    /\ returned' = Returned(argShift(_flags[Root], input))
    /\ Untouched

NextArgs ==
    \/ \E opt \in ArgsOptions : OptionArgs(opt)
    \/ \E input \in ArgsArgvs : OptRight(input)
    \/ \E input \in ArgsArgvs : ArgShift(input)

SpecArgs == InitArgs /\ [][NextArgs]_vars

(***************************************************************************)
(* resolve of a right-rotated argv                                         *)
(***************************************************************************)
\* the declarations SpecRight passes to option()
RightOptions == {ShortA, LoudLevelA}

InitRight ==
    /\ scope = "right"
    /\ Fresh
    /\ cli = <<>>
    /\ program = <<>>

\* root.resolve(root.optRight(input)), once optRight returned
ResolveRight ==
    /\ call # <<>>
    /\ Begin(returned.value)

NextRight ==
    \/ \E opt \in RightOptions : OptionArgs(opt)
    \/ \E input \in ArgsArgvs : OptRight(input)
    \/ ResolveRight
    \/ Receive
    \/ Finish

SpecRight == InitRight /\ [][NextRight]_vars

\* optRight was called
CalledOptRight == call # <<>> /\ call[1] = "optRight"

\* the option of the root that token i of args names takes a value, and
\* the token gives none inline
TakesNext(args, i) ==
    /\ flagVal(args[i])[2] = Undefined
    /\ flagVal(args[i])[1] \in DOMAIN _flags[Root]
    /\ ~_flags[Root][flagVal(args[i])[1]].meta.bool

\* the indices of args, from i on, that are option tokens or the values
\* they consume
RECURSIVE OptionIndices(_, _)
OptionIndices(args, i) ==
    IF i > Len(args) THEN {}
    ELSE IF ~isOpt(args[i]) THEN OptionIndices(args, i + 1)
    ELSE IF TakesNext(args, i)
         THEN ({i, i + 1} \cap (1..Len(args))) \cup OptionIndices(args, i + 2)
         ELSE {i} \cup OptionIndices(args, i + 1)

\* the tokens of args at the indices of S (when keep) or at the others,
\* in their order
RECURSIVE Pick(_, _, _, _)
Pick(args, S, keep, i) ==
    IF i > Len(args) THEN <<>>
    ELSE (IF (i \in S) = keep THEN <<args[i]>> ELSE <<>>) \o Pick(args, S, keep, i + 1)

\* positionals first, then the option tokens with their values
Partitioned(args) ==
    Pick(args, OptionIndices(args, 1), FALSE, 1) \o Pick(args, OptionIndices(args, 1), TRUE, 1)

\* how many times token t is in args
Count(args, t) == Cardinality({i \in 1..Len(args) : args[i] = t})

SameTokens(a, b) ==
    /\ Len(a) = Len(b)
    /\ \A i \in 1..Len(a) : Count(a, a[i]) = Count(b, a[i])
    /\ \A i \in 1..Len(b) : Count(a, b[i]) = Count(b, b[i])

\* C13 as stated: the output of optRight has the length and the tokens of
\* its input, and is the positionals followed by the option tokens with
\* the values they consume, each in their order; also when a value-taking
\* option is the last token
C13_StablePartition ==
    CalledOptRight =>
        /\ SameTokens(call[2], returned.value)
        /\ returned.value = Partitioned(call[2])

\* the same for an argv whose last token is not a value-taking option
\* without a value
C13_UnlessValueMissing ==
    (CalledOptRight /\ (Len(call[2]) + 1) \notin OptionIndices(Append(call[2], T_a), 1)) =>
        /\ SameTokens(call[2], returned.value)
        /\ returned.value = Partitioned(call[2])

\* C14: for every argv and every set of options of the root, optRight of
\* what optRight returned is what optRight returned
C14_Idempotent ==
    CalledOptRight => optRight(_flags[Root], returned.value) = returned.value

\* optRight moved a positional in front of an option and its value
C14_Witness ==
    /\ CalledOptRight
    /\ returned.value # call[2]
    /\ Len(call[2]) = 3
    /\ \E i \in 1..2 : isOpt(call[2][i]) /\ TakesNext(call[2], i)
    /\ optRight(_flags[Root], returned.value) = returned.value

\* optRight returned an undefined after a last option that takes a value,
\* and a second pass leaves it where it is
C14_WitnessUndefined ==
    /\ CalledOptRight
    /\ Len(returned.value) = Len(call[2]) + 1
    /\ returned.value[Len(returned.value)] = Undefined
    /\ optRight(_flags[Root], returned.value) = returned.value

\* argShift was called
CalledArgShift == call # <<>> /\ call[1] = "argShift"

\* p is the longest prefix of s with no token isOpt accepts
LongestPositionalPrefix(p, s) ==
    /\ Len(p) <= Len(s)
    /\ p = Take(s, Len(p))
    /\ \A i \in 1..Len(p) : ~isOpt(p[i])
    /\ Len(p) < Len(s) => isOpt(s[Len(p) + 1])

\* C15: argShift(args) has no token isOpt accepts and is the longest such
\* prefix of optRight(args); an argv with no option token is returned as
\* it is
C15_ArgShift ==
    CalledArgShift =>
        /\ LongestPositionalPrefix(returned.value, optRight(_flags[Root], call[2]))
        /\ (\A i \in 1..Len(call[2]) : ~isOpt(call[2][i])) => returned.value = call[2]

\* argShift cut an argv in which an option came before a positional
C15_Witness ==
    /\ CalledArgShift
    /\ Len(call[2]) = 3
    /\ isOpt(call[2][1])
    /\ ~isOpt(call[2][3])
    /\ returned.value # <<>>
    /\ Len(returned.value) < 3

\* argShift returned an argv with no option token as it is
C15_WitnessUnchanged ==
    /\ CalledArgShift
    /\ Len(call[2]) = 2
    /\ \A i \in 1..2 : ~isOpt(call[2][i])
    /\ returned.value = call[2]

(***************************************************************************)
(* CLI (parser.ts) and Program (program.ts)                                *)
(*                                                                         *)
(* SpecCLI is one CLI.parse on a command directory whose modules all load  *)
(* (require throws only for a path that names no module), followed by the  *)
(* invocation of the matched command and the settling of its run.          *)
(*                                                                         *)
(* The command directory is [file, dirs]: file[p] says what p.js is        *)
(* ("none", a "command", a "hidden" command, a "plain" module exporting no *)
(* command) and dirs holds the paths that are directories.                 *)
(***************************************************************************)
\* 'index', the module require loads for a directory
INDEX == <<"i", "n", "d", "e", "x">>

\* the paths of the command directory: a, b, a/b, a/index
CommandPaths == {<<T_a>>, <<T_b>>, <<T_a, T_b>>, <<T_a, INDEX>>}

\* the command directories: a and a/b may be directories, and only a
\* directory has children
CommandRoots ==
    {r \in [file : [CommandPaths -> {"none", "command", "hidden", "plain"}],
            dirs : SUBSET {<<T_a>>, <<T_a, T_b>>}] :
        /\ r.file[<<T_b>>] \in {"none", "command"}
        /\ r.file[<<T_a, T_b>>] \in {"none", "command", "plain"}
        /\ r.file[<<T_a, INDEX>>] \in {"none", "command"}
        /\ <<T_a>> \notin r.dirs =>
               /\ r.file[<<T_a, T_b>>] = "none"
               /\ r.file[<<T_a, INDEX>>] = "none"
               /\ <<T_a, T_b>> \notin r.dirs}

\* 'a:b'
T_a_b == <<"a", ":", "b">>

\* the number of tokens after argv[1] that parse is called with
MaxTokens == 2

\* what p.js is
fileAt(commandRoot, p) ==
    IF p \in DOMAIN commandRoot.file THEN commandRoot.file[p] ELSE "none"

\* require(path.join(dir, ...p)): p.js, else the index of the directory p;
\* "none" when require throws
require(commandRoot, p) ==
    IF fileAt(commandRoot, p) # "none" THEN fileAt(commandRoot, p)
    ELSE IF p \in commandRoot.dirs THEN fileAt(commandRoot, Append(p, INDEX))
    ELSE "none"

\* str.split(d)
RECURSIVE split(_, _, _)
split(str, d, segment) ==
    IF str = <<>> THEN <<segment>>
    ELSE IF Head(str) = d THEN <<segment>> \o split(Tail(str), d, <<>>)
    ELSE split(Tail(str), d, Append(segment, Head(str)))

\* cmdPath.join(d)
RECURSIVE join(_, _)
join(cmdPath, d) ==
    IF cmdPath = <<>> THEN <<>>
    ELSE IF Len(cmdPath) = 1 THEN cmdPath[1]
    ELSE cmdPath[1] \o <<d>> \o join(Tail(cmdPath), d)

\* the reduce of _normalizedArgs: result is {did, list}
RECURSIVE normalizedReduce(_, _, _, _)
\* a reduce that never sets did
normalizedSplitAll(args, d, result, segments) ==
    normalizedReduce(args, d, FALSE, result \o segments)

normalizedSplit(args, d, result, segments) ==
    normalizedReduce(args, d, Len(segments) > 1, result \o segments)

normalizedReduce(args, d, did, result) ==
    IF args = <<>> THEN result
    ELSE IF ~did THEN normalizedSplit(Tail(args), d, result, split(Head(args), d, <<>>))
    ELSE normalizedReduce(Tail(args), d, did, Append(result, Head(args)))

\* _normalizedArgs(args)
_normalizedArgs(args, d) == normalizedReduce(args, d, FALSE, <<>>)

\* _scanSubcommands(dir, ancestry): <<name, what it is>> of every child
_scanSubcommands(commandRoot, ancestry) ==
    {<<q[Len(q)], commandRoot.file[q]>> :
        q \in {q \in CommandPaths : /\ Len(q) = Len(ancestry) + 1
                                    /\ Take(q, Len(ancestry)) = ancestry
                                    /\ commandRoot.file[q] # "none"}}
    \cup {<<q[Len(q)], "directory">> :
        q \in {q \in commandRoot.dirs : /\ Len(q) = Len(ancestry) + 1
                                        /\ Take(q, Len(ancestry)) = ancestry}}

\* no ICommandDefinition (undefined)
NoCommand == [kind |-> "none"]

RECURSIVE loadFrom(_, _, _, _)

\* one turn of the loop of _loadCommand, mod being what require gave
loadTry(commandRoot, args, d, i, mod) ==
    IF mod \in {"command", "hidden"}
    THEN [kind |-> "command", ctor |-> mod, name |-> join(Take(args, i), d),
          tree |-> Take(args, i), args |-> Drop(args, i)]
    ELSE IF mod = "none" /\ Take(args, i) \in commandRoot.dirs
    THEN [kind |-> "group", name |-> join(Take(args, i), d), tree |-> Take(args, i),
          subcommands |-> _scanSubcommands(commandRoot, Take(args, i))]
    ELSE loadFrom(commandRoot, args, d, i - 1)

\* while (i--) { ... }, i being the length of the prefix to try
loadFrom(commandRoot, args, d, i) ==
    IF i = 0 THEN NoCommand
    ELSE loadTry(commandRoot, args, d, i, require(commandRoot, Take(args, i)))

\* _loadCommand that tries the first token only
_loadCommandFirst(commandRoot, args, d) ==
    loadFrom(commandRoot, args, d, Min(1, Len(args)))

\* _loadCommand(dir, args)
_loadCommand(commandRoot, args, d) == loadFrom(commandRoot, args, d, Len(args))

\* _initHelpFromPath that registers a directory whatever is next to it
_initHelpFromPathAll(commandRoot) ==
    {<<q[1], "file">> :
        q \in {q \in CommandPaths : Len(q) = 1 /\ commandRoot.file[q] = "command"}}
    \cup {<<q[1], "directory">> : q \in {q \in commandRoot.dirs : Len(q) = 1}}

\* _initHelpFromPath(dir): the <<syntax, entry>> it registers, a hidden
\* command being left out by registerCommandHelp
_initHelpFromPath(commandRoot) ==
    {<<q[1], "file">> :
        q \in {q \in CommandPaths : Len(q) = 1 /\ commandRoot.file[q] = "command"}}
    \cup {<<q[1], "directory">> :
        q \in {q \in commandRoot.dirs : Len(q) = 1 /\ fileAt(commandRoot, q) = "none"}}

\* /^-+h(elp)?$/ and /^-+v(ersion)?$/ on args[0], words being the two words
isFlagWord(args, words) ==
    /\ args # <<>>
    /\ \E n \in 1..Len(args[1]) :
          /\ \A i \in 1..n : args[1][i] = "-"
          /\ Drop(args[1], n) \in words

\* this.logger.error(`Command '${args[0]}' was not found`)
CommandNotFound(name) == [kind |-> "Command was not found", subject |-> name]

InitCLI ==
    /\ scope = "cli"
    /\ Fresh
    /\ cli \in [commandRoot : CommandRoots, commandDelim : {":", "."},
                rootCommand : {Undefined, Str(T_b)}, pc : {"ready"}, argv : {<<>>},
                args : {<<>>},
                command : {NoCommand}, logged : {<<>>}, helped : {0}, exit : {<<>>}]
    /\ program = [registered |-> {}, promise |-> "none", instance |-> "none",
                  run |-> "none"]

\* a step of the CLI or of the Program: c and p are what they become
Step(c, p) ==
    /\ cli' = c
    /\ program' = p
    /\ UNCHANGED <<emitted, resolves, scope, _options, _flags, _args, _metadata, _result, pc, argv, list,
                   iargv, collector, error, calls, call, returned>>

\* parse that shows the help and goes on when no command is located
LocatedQuiet(input, args, command) ==
    IF command.kind # "none"
    THEN Step([cli EXCEPT !.pc = "parsed", !.argv = input, !.args = args, !.command = command],
              [program EXCEPT !.promise = "pending",
                              !.registered = @ \cup {<<command.name, "command">>}])
    ELSE Step([cli EXCEPT !.pc = "parsed", !.argv = input, !.args = args, !.helped = @ + 1],
              [program EXCEPT !.registered = @ \cup _initHelpFromPath(cli.commandRoot)])

\* parse, once the command is located (or not)
Located(input, args, command) ==
    IF command.kind # "none"
    THEN Step([cli EXCEPT !.pc = "parsed", !.argv = input, !.args = args, !.command = command],
              [program EXCEPT !.promise = "pending",
                              !.registered = @ \cup
                                  {<<command.name,
                                     IF Str(command.name) = cli.rootCommand
                                     THEN "root" ELSE "command">>}])
    ELSE Step([cli EXCEPT !.pc = "parsed", !.argv = input, !.args = args, !.helped = @ + 1,
                          !.logged = IF args # <<>>
                                     THEN Append(@, CommandNotFound(args[1])) ELSE @,
                          !.exit = IF args # <<>> THEN <<1>> ELSE @],
              [program EXCEPT !.registered = @ \cup _initHelpFromPath(cli.commandRoot)])

\* this._loadCommand(root, args) || rootCommand && this._loadCommand(root,
\* [rootCommand].concat(args)), first being the first operand
LocatedFirst(input, args, first) ==
    IF first.kind # "none" \/ cli.rootCommand = Undefined
    THEN Located(input, args, first)
    ELSE Located(input, args, _loadCommand(cli.commandRoot, <<cli.rootCommand[2]>> \o args,
                                    cli.commandDelim))

\* parse, args being the normalized arguments
Parsed(input, args) ==
    IF isFlagWord(args, {<<"v">>, VERSION})
    THEN Step([cli EXCEPT !.pc = "parsed", !.argv = input, !.args = args],
              [program EXCEPT !.promise = "pending"])
    ELSE IF isFlagWord(args, {<<"h">>, HELP}) /\ cli.rootCommand = Undefined
    THEN Step([cli EXCEPT !.pc = "parsed", !.argv = input, !.args = args, !.helped = @ + 1],
              [program EXCEPT !.registered = @ \cup _initHelpFromPath(cli.commandRoot)])
    ELSE LocatedFirst(input, args, _loadCommand(cli.commandRoot, args, cli.commandDelim))

\* cli.parse(argv), input being argv.slice(2)
Parse(input) ==
    /\ cli.pc = "ready"
    /\ Parsed(input, _normalizedArgs(input, cli.commandDelim))

\* what the invocation handler of _attachHandlers leaves: new ctor() may
\* throw; run may throw, return a promise that resolves or rejects, or
\* return a value that is no promise
Invoked(ctorThrows, result) ==
    IF ctorThrows
    THEN [program EXCEPT !.instance = "threw", !.promise = "rejected"]
    ELSE IF result = "throws"
    THEN [program EXCEPT !.instance = "constructed", !.run = "threw",
                         !.promise = "rejected"]
    ELSE [program EXCEPT !.instance = "constructed", !.run = result]

\* the command processor calls the invocation handler of the matched command
Invoke(ctorThrows, result) ==
    /\ cli.pc = "parsed"
    /\ cli.command.kind = "command"
    /\ program.promise = "pending"
    /\ program.instance = "none"
    /\ Step(cli, Invoked(ctorThrows, result))

\* the promise run returned settles
Settle ==
    /\ program.run \in {"resolves", "rejects"}
    /\ Step(cli, [program EXCEPT !.run = IF @ = "resolves" THEN "completed" ELSE "failed"])

\* p.then(this._done).catch(this._err)
Then ==
    /\ program.run \in {"completed", "failed"}
    /\ program.promise = "pending"
    /\ Step(cli, [program EXCEPT !.promise = IF program.run = "completed"
                                              THEN "resolved" ELSE "rejected"])

NextCLI ==
    \/ \E input \in SeqsUpTo({T_a, T_b, T_a_b, T_help, T_v}, MaxTokens) : Parse(input)
    \/ \E ctorThrows \in BOOLEAN, result \in {"resolves", "rejects", "value", "throws"} :
          Invoke(ctorThrows, result)
    \/ Settle
    \/ Then

SpecCLI == InitCLI /\ [][NextCLI]_vars

\* SpecCLI with the event loop running every reaction that is due, and
\* every promise of a run settling
SpecExec == SpecCLI /\ WF_vars(Settle) /\ WF_vars(Then)

\* parse went on to locate a command: the first token asked neither for
\* the version nor, without a rootCommand, for help
Locating ==
    /\ cli.pc = "parsed"
    /\ ~isFlagWord(cli.args, {<<"v">>, VERSION})
    /\ ~(isFlagWord(cli.args, {<<"h">>, HELP}) /\ cli.rootCommand = Undefined)

\* the token lists _loadCommand is (or may be) called with: the normalized
\* arguments, and those after the rootCommand
Tokens == {cli.args, <<T_b>> \o cli.args}

\* the prefix p loads a module that exports a command implementation
LoadsCommand(p) == require(cli.commandRoot, p) \in {"command", "hidden"}

\* the prefix p is a directory and no module loads for it
GroupOnly(p) == p \in cli.commandRoot.dirs /\ require(cli.commandRoot, p) = "none"

\* i is the length of the longest prefix of tokens that qualifies
LongestQualifying(tokens, i) ==
    /\ i \in 1..Len(tokens)
    /\ LoadsCommand(Take(tokens, i)) \/ GroupOnly(Take(tokens, i))
    /\ \A j \in (i + 1)..Len(tokens) :
          ~(LoadsCommand(Take(tokens, j)) \/ GroupOnly(Take(tokens, j)))

\* def is the definition of the prefix of length i, apart from its args
DefinitionOf(def, tokens, i) ==
    /\ def.kind = IF LoadsCommand(Take(tokens, i)) THEN "command" ELSE "group"
    /\ def.tree = Take(tokens, i)
    /\ def.name = join(Take(tokens, i), cli.commandDelim)
    /\ def.kind = "group" =>
           def.subcommands = _scanSubcommands(cli.commandRoot, Take(tokens, i))

C16_WitnessGroup ==
    /\ Locating
    /\ cli.args = <<T_a, T_b>>
    /\ cli.command.kind = "group"
    /\ cli.command.tree = <<T_a>>
    /\ cli.command.subcommands # {}

\* parse located nothing for two tokens
C16_WitnessNothing ==
    /\ Locating
    /\ Len(cli.args) = 2
    /\ cli.command = NoCommand
    /\ cli.exit = <<1>>

\* p.js and the directory p both exist
FileAndDirectory(p) == fileAt(cli.commandRoot, p) # "none" /\ p \in cli.commandRoot.dirs

\* _initHelpFromPath ran: parse showed the help
HelpRegistered == cli.pc = "parsed" /\ cli.helped > 0

\* the resolver returns no synthesized group for a prefix that is a file
\* and a directory
NeverGroup ==
    \A tokens \in Tokens :
        _loadCommand(cli.commandRoot, tokens, cli.commandDelim).kind = "group" =>
            ~FileAndDirectory(_loadCommand(cli.commandRoot, tokens, cli.commandDelim).tree)

C17_WitnessResolver ==
    /\ Locating
    /\ FileAndDirectory(<<T_a>>)
    /\ cli.args = <<T_a>>
    /\ cli.command.kind = "command"
    /\ _scanSubcommands(cli.commandRoot, <<T_a>>) # {}

\* help was registered for a directory a next to a module a.js that
\* exports no command: the name is not registered
C17_WitnessPlain ==
    /\ HelpRegistered
    /\ FileAndDirectory(<<T_a>>)
    /\ cli.commandRoot.file[<<T_a>>] = "plain"
    /\ \A r \in program.registered : r[1] # T_a

\* parse returned and neither the normalized tokens nor, with a
\* rootCommand, the tokens after it resolve
NothingResolves ==
    /\ cli.pc = "parsed"
    /\ _loadCommand(cli.commandRoot, cli.args, cli.commandDelim) = NoCommand
    /\ cli.rootCommand # Undefined =>
           _loadCommand(cli.commandRoot, <<cli.rootCommand[2]>> \o cli.args,
                        cli.commandDelim) = NoCommand

\* what parse leaves when nothing resolves: with a token, the error that
\* names the first one, the help and exit code 1, and no exec; without,
\* the help only
NotFound ==
    /\ cli.helped = 1
    /\ program.promise = "none"
    /\ program.instance = "none"
    /\ cli.logged = IF cli.args # <<>> THEN <<CommandNotFound(cli.args[1])>> ELSE <<>>
    /\ cli.exit = IF cli.args # <<>> THEN <<1>> ELSE <<>>

C18_WitnessNoToken ==
    /\ NothingResolves
    /\ cli.args = <<>>
    /\ cli.helped = 1
    /\ cli.exit = <<>>

\* the first token asks for the version: exec and no error
C18_WitnessVersion ==
    /\ NothingResolves
    /\ cli.args = <<T_v>>
    /\ program.promise = "pending"
    /\ cli.logged = <<>>

\* parse was called with a first token that is a path joined by the
\* delimiter
Joined ==
    /\ cli.pc = "parsed"
    /\ cli.argv # <<>>
    /\ Len(split(cli.argv[1], cli.commandDelim, <<>>)) > 1

\* the same argv with the segments of the path as separate tokens
Separate == split(cli.argv[1], cli.commandDelim, <<>>) \o Tail(cli.argv)

\* the argv normalizes to the token list, and resolves to the command and
\* the arguments, of the argv with separate tokens
SameAsSeparate ==
    /\ cli.args = _normalizedArgs(Separate, cli.commandDelim)
    /\ _loadCommand(cli.commandRoot, cli.args, cli.commandDelim)
           = _loadCommand(cli.commandRoot, _normalizedArgs(Separate, cli.commandDelim),
                          cli.commandDelim)

\* C19 as stated: an argv whose first token is the command path joined by
\* the delimiter, followed by further tokens, normalizes to the same token
\* list and resolves to the same command and arguments as the argv that
\* passes the segments as separate tokens
C19_Delimiter == Joined => SameAsSeparate

\* the same when no further token holds the delimiter
C19_UnlessDelimiterLater ==
    (Joined /\ \A i \in 2..Len(cli.argv) :
                   Len(split(cli.argv[i], cli.commandDelim, <<>>)) = 1) => SameAsSeparate

\* the invocation handler ran for the matched command: exec dispatched
Dispatched == cli # <<>> /\ program.instance # "none"

\* the promise of exec is settled
Settled == program.promise \in {"resolved", "rejected"}

\* the promise of exec resolves only after run completed, and is rejected
\* when the constructor or run threw or run failed
SettledRight ==
    /\ program.promise = "resolved" => program.run = "completed"
    /\ (program.instance = "threw" \/ program.run = "threw") => program.promise = "rejected"
    /\ (program.promise = "rejected" /\ program.instance = "constructed") =>
           program.run \in {"threw", "failed"}

\* C20 as stated: every exec that dispatches to a matched command settles
\* in the end, whatever run returns; it resolves only after run completed
\* and rejects when the constructor throws or run fails
C20_Settles == [](Dispatched => SettledRight) /\ (Dispatched ~> Settled)

\* the same for a run that returns a promise or throws
C20_UnlessNoPromise ==
    /\ [](Dispatched => SettledRight)
    /\ (Dispatched /\ program.run # "value") ~> Settled

\* the token holds the delimiter
HasDelimiter(token) == \E i \in 1..Len(token) : token[i] = cli.commandDelim

\* k is the index of the first token of parse's argv that holds the delimiter
FirstWithDelimiter(k) ==
    /\ k \in 1..Len(cli.argv)
    /\ HasDelimiter(cli.argv[k])
    /\ \A j \in 1..(k - 1) : ~HasDelimiter(cli.argv[j])

\* the n tokens of the normalized arguments from index k on are the
\* segments of token: joined by the delimiter they give the token back,
\* and none of them holds the delimiter
SegmentsAt(k, n, token) ==
    /\ n >= 2
    /\ join(SubSeq(cli.args, k, k + n - 1), cli.commandDelim) = token
    /\ \A i \in k..(k + n - 1) : ~HasDelimiter(cli.args[i])

\* C30: _normalizedArgs splits at most one token: the tokens before the
\* first one that holds the delimiter are passed through, that token is
\* replaced in place by its segments, every token after it is passed
\* through even if it holds the delimiter, and an argv without such a
\* token (the empty one too) is returned as it is
C30_SplitsOne ==
    cli.pc = "parsed" =>
        /\ (~\E k \in 1..Len(cli.argv) : HasDelimiter(cli.argv[k])) => cli.args = cli.argv
        /\ \A k \in 1..Len(cli.argv) :
              FirstWithDelimiter(k) =>
                  /\ Take(cli.args, k - 1) = Take(cli.argv, k - 1)
                  /\ SegmentsAt(k, Len(cli.args) - Len(cli.argv) + 1, cli.argv[k])
                  /\ Drop(cli.args, Len(cli.args) - (Len(cli.argv) - k)) = Drop(cli.argv, k)

\* parse split the second token and passed the first through
C30_Witness ==
    /\ cli.pc = "parsed"
    /\ cli.commandDelim = ":"
    /\ cli.argv = <<T_b, T_a_b>>
    /\ cli.args = <<T_b, T_a, T_b>>

\* parse split the first token and passed the second through although it
\* holds the delimiter
C30_WitnessAfter ==
    /\ cli.pc = "parsed"
    /\ cli.commandDelim = ":"
    /\ cli.argv = <<T_a_b, T_a_b>>
    /\ cli.args = <<T_a, T_b, T_a_b>>

(***************************************************************************)
(* The declared options, arguments and aliases of a collector              *)
(***************************************************************************)
\* the canonical names of a list of declarations
NamesOf(options) == {options[i]._flag.name : i \in DOMAIN options}

\* new is old after one option() call: its last entry is the declaration
\* just registered, and before it come the entries of old of another name,
\* in their order
RegisteredLast(old, new) ==
    /\ new # <<>>
    /\ Take(new, Len(new) - 1) =
           SelectSeq(old, LAMBDA o : o._flag.name # new[Len(new)]._flag.name)

\* a step that is one option(), help() or version() call which changed the
\* declarations or the aliases
OptionCall == calls' = calls + 1 /\ (_options' # _options \/ _flags' # _flags)

\* the step of resolve that descends to the matched collector
Descent == pc = "idle" /\ pc' = "reduce"

\* new is own after _inherit(from): the collector's own declarations were
\* registered last, after the inheritable ones of another name
InheritedFirst(own, from, new) ==
    new = SelectSeq(from, LAMBDA o : /\ o.inherits # Bool(FALSE)
                                     /\ o._flag.name \notin NamesOf(own))
          \o own

C22_LatestLast ==
    [][/\ OptionCall =>
            \E c \in Collectors :
                /\ RegisteredLast(_options[c], _options'[c])
                /\ \A d \in Collectors \ {c} : _options'[d] = _options[d]
       /\ Descent =>
            \A c \in Collectors :
                IF c \in (Ancestors(collector') \cup {collector'}) \ {Root}
                THEN InheritedFirst(_options[c], _options'[parent(c)], _options'[c])
                ELSE _options'[c] = _options[c]]_vars

C22_WitnessInherited ==
    /\ pc = "reduce"
    /\ collector = 2
    /\ \E o \in Own(Root) : o._flag.name = <<"l", "o", "u", "d">> /\ o.inherits # Bool(FALSE)
    /\ Len(_options[2]) = 1
    /\ _options[2][1].owner = 2

\* C26 as stated: no declared argument other than the last is variadic
C26_VariadicLast ==
    \A c \in Collectors :
        \A i \in 1..(Len(_args[c]) - 1) : ~_args[c][i].multi

\* C28 as stated: every alias of the lookup table maps to the Flag of an
\* option that is in the declared option list
C28_AliasDeclared ==
    \A c \in Collectors :
        \A a \in DOMAIN _flags[c] :
            \E i \in DOMAIN _options[c] : _options[c][i]._flag = _flags[c][a]

(***************************************************************************)
(* The argv of a result                                                    *)
(***************************************************************************)
\* tokens without the ones that name a subcommand on the way down from c
RECURSIVE WithoutCommands(_, _)
WithoutCommands(c, tokens) ==
    IF tokens = <<>> THEN <<>>
    ELSE IF Head(tokens) \in DOMAIN commands(c)
    THEN WithoutCommands(commands(c)[Head(tokens)], Tail(tokens))
    ELSE <<Head(tokens)>> \o WithoutCommands(c, Tail(tokens))

\* C24 as stated: the argv of the result is the input without exactly the
\* matched command-name tokens, every other token kept in its order
C24_CommandTokensRemoved ==
    pc # "idle" => iargv = WithoutCommands(Root, argv)

\* it is so whenever the matched command names are the leading tokens
C24_WhenLeading ==
    (pc # "idle" /\ collector = Follow(Root, argv).inst)
        => iargv = WithoutCommands(Root, argv)

(***************************************************************************)
(* Option events                                                           *)
(***************************************************************************)
\* c and its ancestors, from c outward to the root
RECURSIVE PathUp(_)
PathUp(c) == IF c = 0 THEN <<>> ELSE <<c>> \o PathUp(parent(c))

\* the name the option token sets on collector c: the canonical name of
\* the flag its alias maps to, the camelized token when it maps to none
Named(c, token) ==
    IF flagVal(token)[1] \in DOMAIN _flags[c]
    THEN _flags[c][flagVal(token)[1]].name
    ELSE camelize(flagVal(token)[1])

\* a step of the loop that takes an option token and does not throw
OptionObserved == pc = "reduce" /\ list # <<>> /\ isOpt(Head(list)) /\ pc' = "reduce"

\* the emit calls the step added
Added == SubSeq(emitted', Len(emitted) + 1, Len(emitted'))

\* the emit calls are those of one option (name, val) observed at collector
\* c: on c and on each of its ancestors up to the root, from c outward,
\* 'option' with (name, val) and then 'option:<name>' with val, and no
\* other
EmittedOnPath(calls_, c, name, val) ==
    /\ Len(calls_) = 2 * Len(PathUp(c))
    /\ \A k \in 1..Len(PathUp(c)) :
          /\ calls_[2 * k - 1] = [on |-> PathUp(c)[k], event |-> OPTION,
                                  args |-> <<name, val>>]
          /\ calls_[2 * k] = [on |-> PathUp(c)[k],
                              event |-> OPTION \o <<":">> \o name,
                              args |-> <<val>>]

\* C21: each option value observed at the matched collector is emitted as
\* 'option' (name, value) and as 'option:<name>' on the matched collector
\* and on every ancestor up to and including the root, from the matched
\* node outward, and on no other collector
C21_EmittedUpToRoot ==
    [][OptionObserved =>
          /\ Take(emitted', Len(emitted)) = emitted
          /\ EmittedOnPath(Added, collector, Named(collector, Head(list)),
                           _result'[collector].options[Named(collector, Head(list))])]_vars

\* resolve(['bar', 'baz', '-l']) with -l declared on the root: the option
\* observed at baz was emitted on baz, on bar and on the root
C21_Witness ==
    /\ collector = 3
    /\ Len(emitted) = 6
    /\ emitted[1].on = 3
    /\ emitted[3].on = 2
    /\ emitted[5].on = Root
    /\ emitted[5].args = <<<<"l", "o", "u", "d">>, Bool(TRUE)>>

\* the tokens the loop of resolve has taken from its list
Processed == Take(iargv, Len(iargv) - Len(list))

\* the option tokens among them whose _optVal returned: all of them,
\* except the last one when _optVal threw
Returning ==
    IF pc = "rejected" /\ error.kind # "missing required argument"
    THEN Take(SelectSeq(Processed, isOpt), Len(SelectSeq(Processed, isOpt)) - 1)
    ELSE SelectSeq(Processed, isOpt)

\* the 'option' events emitted on collector c, in order
OptionEvents(c) == SelectSeq(emitted, LAMBDA e : e.on = c /\ e.event = OPTION)

\* C29: at every point of a resolve the 'option' events emitted on the
\* matched collector are one per option token processed, in argv order:
\* when the loop is left they are all there, before _defaults and _verify
\* run; when resolve rejects, those of every option token before the
\* failure point are there; _defaults and _verify add none
C29_OncePerToken ==
    pc # "idle" =>
        /\ Len(OptionEvents(collector)) = Len(Returning)
        /\ \A k \in 1..Len(Returning) :
              OptionEvents(collector)[k].args[1] = Named(collector, Returning[k])

\* C29, the steps: the events are only ever added at the end, by a step
\* that takes an option token; the step that applies the defaults and
\* validates the arguments adds none
C29_OnlyWhenObserved ==
    [][(pc = "reduce" /\ ~OptionObserved) => emitted' = emitted]_vars

\* resolve rejected at the second option token, after the event of the
\* first was emitted
C29_Witness ==
    /\ pc = "rejected"
    /\ error.kind = "Unknown option"
    /\ Len(OptionEvents(collector)) = 1
    /\ Len(SelectSeq(Processed, isOpt)) = 2

\* resolve gave an option its default value and emitted no event
C29_WitnessDefault ==
    /\ pc = "done"
    /\ emitted = <<>>
    /\ \E i \in DOMAIN _options[collector] :
          /\ _options[collector][i]._flag.defaultValue # Undefined
          /\ _result[collector].options[_options[collector][i]._flag.name]
                = _options[collector][i]._flag.defaultValue

(***************************************************************************)
(* Defaults                                                                *)
(***************************************************************************)
\* the values the argv gave to the option `name` at collector c, in order
Observed(c, name) ==
    SelectSeq(OptionEvents(c), LAMBDA e : e.args[1] = name)

\* the last of them
LastObserved(c, name) == Observed(c, name)[Len(Observed(c, name))].args[2]

\* C23: in every successful result every option declared on or inherited
\* by the matched collector has a key in options; an option the argv did
\* not name holds its flag's default value, and a value the argv gave is
\* not overwritten by the default
C23_Defaults ==
    pc = "done" =>
        \A i \in DOMAIN _options[collector] :
            /\ _options[collector][i]._flag.name \in DOMAIN _result[collector].options
            /\ Observed(collector, _options[collector][i]._flag.name) = <<>>
                  => _result[collector].options[_options[collector][i]._flag.name]
                        = _options[collector][i]._flag.defaultValue
            /\ (/\ Observed(collector, _options[collector][i]._flag.name) # <<>>
                /\ LastObserved(collector, _options[collector][i]._flag.name) # Undefined)
                  => _result[collector].options[_options[collector][i]._flag.name]
                        = LastObserved(collector, _options[collector][i]._flag.name)

\* resolve(['--loud=b']) with '--loud <level>' of default 'a': the value of
\* the argv is in the result, not the default
C23_Witness ==
    /\ pc = "done"
    /\ \E i \in DOMAIN _options[collector] :
          /\ _options[collector][i]._flag.defaultValue = Str(<<"a">>)
          /\ Observed(collector, _options[collector][i]._flag.name) # <<>>
          /\ _result[collector].options[_options[collector][i]._flag.name] = Str(<<"b">>)

\* resolve gave a declared option the argv does not name its default
C23_WitnessDefault ==
    /\ pc = "done"
    /\ iargv = <<T_a>>
    /\ \E i \in DOMAIN _options[collector] :
          /\ _options[collector][i]._flag.defaultValue = Str(<<"a">>)
          /\ _result[collector].options[_options[collector][i]._flag.name] = Str(<<"a">>)

\* resolve(['--loud']) with '--loud [level]' of default 'a': the argv
\* names the option and gives it no value, and the default is in the result
C23_WitnessNoValue ==
    /\ pc = "done"
    /\ iargv = <<T_loud>>
    /\ \E i \in DOMAIN _options[collector] :
          /\ Observed(collector, _options[collector][i]._flag.name) # <<>>
          /\ LastObserved(collector, _options[collector][i]._flag.name) = Undefined
          /\ _result[collector].options[_options[collector][i]._flag.name] = Str(<<"a">>)

(***************************************************************************)
(* The result of a resolve and the results before it                       *)
(***************************************************************************)
\* what resolve(tokens) gives on collector c with its declarations as they
\* are and the accumulator of a collector just constructed
OnFresh(c, tokens) ==
    resolved(_options[c], _args[c],
             reduce(_flags[c], _metadata[c], _args[c],
                    [options |-> <<>>, args |-> <<>>], tokens))

\* C25 as stated: whatever calls came before, the call that settled last
\* gives what a tree just built gives for its argv: the same rejection, or
\* the same options and args
C25_LatestPassOnly ==
    pc \in {"done", "rejected"} =>
        /\ error = OnFresh(collector, iargv).error
        /\ pc = "done" => _result[collector] = OnFresh(collector, iargv).result

\* it is so for the first call on a tree
C25_FirstPass ==
    (pc \in {"done", "rejected"} /\ resolves = 1) =>
        /\ error = OnFresh(collector, iargv).error
        /\ pc = "done" => _result[collector] = OnFresh(collector, iargv).result

(***************************************************************************)
(* Right-rotation and the parse                                            *)
(***************************************************************************)
\* C27 as stated: resolving optRight(argv) gives what resolving argv gives
\* on an identical collector just built: the same options and the same
\* args, or a rejection of the same kind
C27_SameParse ==
    (pc \in {"done", "rejected"} /\ call # <<>>) =>
        /\ error.kind = OnFresh(Root, call[2]).error.kind
        /\ pc = "done" => _result[Root] = OnFresh(Root, call[2]).result

\* token i of args is an option token that takes the next token as its
\* value, and what follows it is an option token or nothing
NoValueFollows(args, i) ==
    /\ isOpt(args[i])
    /\ TakesNext(args, i)
    /\ (i = Len(args) \/ isOpt(args[i + 1]))

\* it is so for every argv in which each option token that takes the next
\* token as its value is followed by a token that is no option
C27_WhenValuesFollow ==
    (/\ pc \in {"done", "rejected"}
     /\ call # <<>>
     /\ \A i \in 1..Len(call[2]) : ~NoValueFollows(call[2], i)) =>
        /\ error.kind = OnFresh(Root, call[2]).error.kind
        /\ pc = "done" => _result[Root] = OnFresh(Root, call[2]).result

====
